---- MODULE Spec2Model ----
(***************************************************************************)
(* The financial computation layer of the dashboard: budget summary, loan  *)
(* payment and amortization schedule, investment returns and the growth    *)
(* simulation, retirement readiness and mortgage affordability.            *)
(*                                                                         *)
(* Numbers.  The program computes in binary floating point.  The model     *)
(* computes in decimal fixed point and rounds every operation to nearest:  *)
(*   - money is an integer number of currency units;                       *)
(*   - a rate, ratio or growth factor near 1 is an integer number of       *)
(*     1/Scale (so 0.07 is 70000 when Scale is 10^6);                      *)
(*   - a monthly rate is kept exactly, in units of 1/(12*Scale): like a    *)
(*     float, the grid is finer near 0 than near 1, so 1 + monthly_rate    *)
(*     rounds, and a rate small enough is absorbed by the addition.        *)
(* An exception that leaves a function is the value Raise(kind).           *)
(***************************************************************************)
EXTENDS Integers, Sequences, FiniteSets, TLC

VARIABLES pc, call, result, local

\* The persistence store: the committed database, the state of each session's
\* connection, the session that holds the database's write lock, the clock
\* that CURRENT_TIMESTAMP reads, and the number of operations started.
VARIABLES db, conn, lock, clock, started

store == <<db, conn, lock, clock, started>>

vars == <<pc, call, result, local, db, conn, lock, clock, started>>

\* ------------------------------------------------------------ bounds ----
\* Longest term, in years, of the loans and projections that are enumerated.
MaxYears == 3
\* Resolution of rates and factors: one unit is 1/Scale.
Scale == 1000000
\* Most holdings of a portfolio that is enumerated.
MaxHoldings == 3
\* Most operations on the persistence store that are started in a behaviour.
MaxOperations == 3
\* Latest reading of the clock, in seconds.
MaxClock == 1

\* -------------------------------------------------------- arithmetic ----
Abs(x) == IF x < 0 THEN -x ELSE x

Sign(x) == IF x < 0 THEN -1 ELSE 1

Min(a, b) == IF a <= b THEN a ELSE b

Max(a, b) == IF a >= b THEN a ELSE b

\* Exact <<quotient, remainder>> of a*b by c for a, b >= 0 and 0 < c < 2^27,
\* computed sixteen-fold digit by digit of b so that no intermediate value is
\* wider than 31 bits.
RECURSIVE QuotRem(_, _, _)
QuotRem(a, b, c) ==
    IF a = 0 \/ b = 0 THEN <<0, 0>>
    ELSE IF a <= 46340 /\ b <= 46340 THEN <<(a * b) \div c, (a * b) % c>>
    ELSE LET h  == QuotRem(a, b \div 16, c)
             t1 == 16 * h[2]
             t2 == (a % c) * (b % 16)
             r  == (t1 % c) + (t2 % c)
             q  == 16 * h[1] + (t1 \div c) + (a \div c) * (b % 16) + (t2 \div c)
         IN  IF r >= c THEN <<q + 1, r - c>> ELSE <<q, r>>

\* a*b/c rounded to nearest (ties away from zero), c > 0.
RoundMulDiv(a, b, c) ==
    LET qr == QuotRem(Abs(a), Abs(b), c)
        up == IF qr[2] >= c - (c \div 2) THEN 1 ELSE 0
    IN  Sign(a) * Sign(b) * (qr[1] + up)

\* a/b rounded to nearest, b > 0.
RoundDiv(a, b) == RoundMulDiv(a, 1, b)

\* x * f for a factor f in units of 1/Scale.
MulFactor(x, f) == RoundMulDiv(x, f, Scale)

\* annual_rate / 12, exactly: an annual rate of k units of 1/Scale is a monthly
\* rate of the same k units of 1/(12*Scale).
MonthlyRate(annual_rate) == annual_rate

\* 1 + monthly_rate as a factor, rounded to the factor's resolution.
OnePlus(monthly_rate) == Scale + RoundDiv(monthly_rate, 12)

\* base ** n for a factor base and an integer n >= 0.
RECURSIVE Pow(_, _)
Pow(base, n) ==
    IF n = 0 THEN Scale
    ELSE LET h  == Pow(base, n \div 2)
             sq == MulFactor(h, h)
         IN  IF n % 2 = 1 THEN MulFactor(sq, base) ELSE sq

\* What a call produces: a value returned, or an exception that leaves it.
Return(v) == [returned |-> v]

Raise(kind) == [raised |-> kind]

IsRaise(outcome) == "raised" \in DOMAIN outcome

\* An argument is a number, or a value that is not one (a string).
Num(v) == [num |-> v]

NotANumber == [str |-> "abc"]

IsNumber(arg) == "num" \in DOMAIN arg

\* Python's None as a returned value or an argument.
None == [is_none |-> TRUE]

IsNone(v) == DOMAIN v = {"is_none"}

NoLocals == [none |-> TRUE]

NoResult == [none |-> TRUE]

\* ---------------------------------------------- calculate_budget_summary
RECURSIVE SumValues(_)
SumValues(mapping) ==
    IF DOMAIN mapping = {} THEN 0
    ELSE LET k == CHOOSE x \in DOMAIN mapping : TRUE
         IN  mapping[k] + SumValues([x \in DOMAIN mapping \ {k} |-> mapping[x]])

\* (part / whole) * 100, a percentage in units of 1/Scale of a percent.
Percent(part, whole) == RoundMulDiv(part, Scale, whole) * 100

\* Faulty variant: the early return reports 100 whatever the income.
EmptyBudgetSummary_Always100(income) ==
    [income |-> income, total_expenses |-> 0, remaining |-> income,
     savings_rate |-> 100 * Scale]

EmptyBudgetSummary(income) ==
    [income |-> income, total_expenses |-> 0, remaining |-> income,
     savings_rate |-> IF income > 0 THEN 100 * Scale ELSE 0]

calculate_budget_summary(income, expenses) ==
    IF DOMAIN expenses = {} THEN EmptyBudgetSummary(income)
    ELSE LET total_expenses == SumValues(expenses)
             remaining      == income - total_expenses
         IN  [income |-> income, total_expenses |-> total_expenses,
              remaining |-> remaining,
              savings_rate |-> IF income > 0 THEN Percent(remaining, income) ELSE 0]

\* ------------------------------------------------ calculate_loan_payment
\* principal * (r * (1+r)**n) / ((1+r)**n - 1); the division raises when
\* (1+r)**n - 1 is 0.
AmortizedPayment(principal, monthly_rate, n_payments) ==
    LET growth == Pow(OnePlus(monthly_rate), n_payments)
        num    == MulFactor(monthly_rate, growth)
        den    == 12 * (growth - Scale)
    IN  IF den = 0 THEN Raise("ZeroDivisionError")
        ELSE Return(RoundMulDiv(principal, num, den))

\* Faulty variant: no special case for a zero rate.
calculate_loan_payment_NoZeroRateCase(principal, annual_rate, years) ==
    AmortizedPayment(principal, MonthlyRate(annual_rate), years * 12)

calculate_loan_payment(principal, annual_rate, years) ==
    LET monthly_rate == MonthlyRate(annual_rate)
        n_payments   == years * 12
    IN  IF monthly_rate = 0
        THEN IF n_payments = 0 THEN Raise("ZeroDivisionError")
             ELSE Return(RoundDiv(principal, n_payments))
        ELSE AmortizedPayment(principal, monthly_rate, n_payments)

\* ---------------------------------------- generate_amortization_schedule
\* Faulty variant: the row shows the running balance as it is.
ClampBalance_Unclamped(remaining_balance) == remaining_balance

ClampBalance(remaining_balance) == Max(0, remaining_balance)

\* One pass of the loop body over the locals l.
AmortizationStep(l) ==
    LET interest_payment  == RoundMulDiv(l.remaining_balance, l.monthly_rate, 12 * Scale)
        principal_payment == l.monthly_payment - interest_payment
        balance           == l.remaining_balance - principal_payment
        row == [month |-> l.month, payment |-> l.monthly_payment,
                principal |-> principal_payment, interest |-> interest_payment,
                remaining_balance |-> ClampBalance(balance)]
    IN  [l EXCEPT !.remaining_balance = balance,
                  !.schedule = Append(@, row),
                  !.month = @ + 1]

\* ------------------------------------------ calculate_investment_returns
\* Faulty variant: the annuity term without its "- 1".
ContributionGrowth_NoMinusOne(monthly_contribution, monthly_rate, months) ==
    IF monthly_rate > 0
    THEN RoundMulDiv(monthly_contribution * 12,
                     Pow(OnePlus(monthly_rate), months), monthly_rate)
    ELSE monthly_contribution * months

\* The effect of the monthly contributions on the final amount.
ContributionGrowth(monthly_contribution, monthly_rate, months) ==
    IF monthly_rate > 0
    THEN RoundMulDiv(monthly_contribution * 12,
                     Pow(OnePlus(monthly_rate), months) - Scale, monthly_rate)
    ELSE monthly_contribution * months

calculate_investment_returns(initial_investment, monthly_contribution, years, rate_of_return) ==
    LET monthly_rate == MonthlyRate(rate_of_return)
        months       == years * 12
        final_amount ==
            MulFactor(initial_investment, Pow(OnePlus(monthly_rate), months))
            + ContributionGrowth(monthly_contribution, monthly_rate, months)
        total_contribution == initial_investment + (monthly_contribution * months)
    IN  [final_amount |-> final_amount,
         total_contributions |-> total_contribution,
         total_earnings |-> final_amount - total_contribution]

\* ---------------------------------------- create_investment_growth_chart
\* Faulty variant: the first point counts the investment as earnings.
InitialPoint_EarningsIsValue(initial_investment) ==
    [year |-> 0, value |-> initial_investment,
     contributions |-> initial_investment, earnings |-> initial_investment]

InitialPoint(initial_investment) ==
    [year |-> 0, value |-> initial_investment,
     contributions |-> initial_investment, earnings |-> 0]

\* The inner loop: k more months of compounding and contributing.
RECURSIVE CompoundMonths(_, _, _, _)
CompoundMonths(k, acc, monthly_rate, monthly_contribution) ==
    IF k = 0 THEN acc
    ELSE CompoundMonths(k - 1,
            [current_value |-> MulFactor(acc.current_value, OnePlus(monthly_rate))
                               + monthly_contribution,
             total_contributions |-> acc.total_contributions + monthly_contribution],
            monthly_rate, monthly_contribution)

\* One pass of the outer loop body over the locals l.
GrowthYearStep(l, monthly_rate, monthly_contribution) ==
    LET acc == CompoundMonths(12, [current_value |-> l.current_value,
                                   total_contributions |-> l.total_contributions],
                              monthly_rate, monthly_contribution)
        earnings == acc.current_value - acc.total_contributions
        point == [year |-> l.year, value |-> acc.current_value,
                  contributions |-> acc.total_contributions, earnings |-> earnings]
    IN  [current_value |-> acc.current_value,
         total_contributions |-> acc.total_contributions,
         year |-> l.year + 1,
         data |-> Append(l.data, point)]

\* --------------------------------------------------- calculate_net_worth
\* `if mapping`: neither None nor empty.
Truthy(mapping) == ~IsNone(mapping) /\ DOMAIN mapping # {}

\* Faulty variant: the number of entries instead of their sum.
MappingTotal_CountsEntries(mapping) ==
    IF Truthy(mapping) THEN Cardinality(DOMAIN mapping) ELSE 0

\* sum(mapping.values()) if mapping else 0
MappingTotal(mapping) == IF Truthy(mapping) THEN SumValues(mapping) ELSE 0

calculate_net_worth(assets, liabilities) ==
    LET assets_total      == MappingTotal(assets)
        liabilities_total == MappingTotal(liabilities)
        net_worth         == assets_total - liabilities_total
    IN  <<net_worth, assets_total, liabilities_total>>

\* ------- calculate_debt_to_income_ratio, calculate_emergency_fund_ratio
\* numerator / denominator as a ratio in units of 1/Scale, denominator # 0.
Ratio(numerator, denominator) ==
    Sign(denominator) * RoundMulDiv(numerator, Scale, Abs(denominator))

\* Faulty variant: only a zero denominator is undefined.
UndefinedRatio_OnlyZero(denominator) == denominator = 0

\* The guard of both ratios: no ratio over a non-positive denominator.
UndefinedRatio(denominator) == denominator <= 0

calculate_debt_to_income_ratio(monthly_debt_payments, monthly_income) ==
    IF UndefinedRatio(monthly_income) THEN None
    ELSE Num(Ratio(monthly_debt_payments, monthly_income))

calculate_emergency_fund_ratio(emergency_fund, monthly_expenses) ==
    IF UndefinedRatio(monthly_expenses) THEN None
    ELSE Num(Ratio(emergency_fund, monthly_expenses))

\* ------------------------------------------------------- try / except ----
\* Faulty variant: a handler for ZeroDivisionError alone.
Catches_OnlyZeroDivision(kind) == kind = "ZeroDivisionError"

\* `except Exception` catches every exception the computations can raise.
Catches(kind) ==
    kind \in {"ZeroDivisionError", "TypeError", "OverflowError", "ValueError",
              "ConnectionError", "IndexError"}

\* The outcome of a try body under the handler that returns {"error": message}.
TryExcept(outcome, prefix) ==
    IF IsRaise(outcome) /\ Catches(outcome.raised)
    THEN Return([error |-> <<prefix, outcome.raised>>])
    ELSE outcome

\* base ** n for a factor base and any integer n; 0 ** negative raises.
PowInt(base, n) ==
    IF n >= 0 THEN Return(Pow(base, n))
    ELSE IF Pow(base, -n) = 0 THEN Raise("ZeroDivisionError")
    ELSE Return(RoundMulDiv(Scale, Scale, Pow(base, -n)))

\* ------------------------------------------------------- market data ----
\* What the market data gateway answers to a request for a ticker's history: a
\* series of daily rows, oldest first (empty when it has no data), or the
\* request fails.
History(rows) == [rows |-> rows]

DayRow(close, high, low) == [Close |-> close, High |-> high, Low |-> low]

FetchFails == Raise("ConnectionError")

\* hist.empty
HistoryEmpty(hist) == Len(hist.rows) = 0

\* hist['Close'].iloc[-k], k >= 1: the k-th close counted from the end.
CloseFromEnd(hist, k) == hist.rows[Len(hist.rows) - k + 1].Close

\* hist['Close'].iloc[0]
FirstClose(hist) == hist.rows[1].Close

\* ----------------------------------------------------- get_stock_metrics
\* The numbers of trading days taken for one month, three months and a year.
TradingDays1Mo == 21

TradingDays3Mo == 63

TradingDays1Yr == 252

\* ((current_price / price_then) - 1) * 100, in units of 1/Scale of a percent.
PercentChange(current_price, price_then) ==
    (RoundMulDiv(current_price, Scale, price_then) - Scale) * 100

\* hist['High'].max()
MaxHigh(rows) ==
    CHOOSE h \in {rows[i].High : i \in DOMAIN rows} :
        \A i \in DOMAIN rows : rows[i].High <= h

\* hist['Low'].min()
MinLow(rows) ==
    CHOOSE l \in {rows[i].Low : i \in DOMAIN rows} :
        \A i \in DOMAIN rows : l <= rows[i].Low

\* info.get(key, default)
InfoGet(info, key, default) == IF key \in DOMAIN info THEN info[key] ELSE default

\* The three trailing returns, each None when the history is too short.
TrailingReturns(hist, current_price) ==
    [1mo |-> IF Len(hist.rows) >= TradingDays1Mo
             THEN Num(PercentChange(current_price, CloseFromEnd(hist, TradingDays1Mo)))
             ELSE None,
     3mo |-> IF Len(hist.rows) >= TradingDays3Mo
             THEN Num(PercentChange(current_price, CloseFromEnd(hist, TradingDays3Mo)))
             ELSE None,
     1yr |-> IF Len(hist.rows) >= TradingDays1Yr
             THEN Num(PercentChange(current_price, FirstClose(hist)))
             ELSE None]

\* The try body: info and hist are the gateway's answers for the ticker.
StockBody(ticker, info, hist) ==
    IF IsRaise(info) THEN info
    ELSE IF IsRaise(hist) THEN hist
    ELSE IF HistoryEmpty(hist)
    THEN Return([error |-> <<"Could not retrieve data for ticker symbol", ticker>>])
    ELSE LET current_price  == CloseFromEnd(hist, 1)
             dividend_yield == InfoGet(info, "dividendYield", 0)
         IN  Return([name |-> InfoGet(info, "longName", ticker),
                     current_price   |-> current_price,
                     price_52wk_high |-> MaxHigh(hist.rows),
                     price_52wk_low  |-> MinLow(hist.rows),
                     pe_ratio        |-> InfoGet(info, "trailingPE", None),
                     dividend_yield  |-> IF dividend_yield # 0
                                         THEN dividend_yield * 100 ELSE dividend_yield,
                     returns |-> TrailingReturns(hist, current_price)])

get_stock_metrics(ticker, info, hist) ==
    TryExcept(StockBody(ticker, info, hist), "Error getting stock metrics")

\* ------------------------------------------ analyze_retirement_readiness
\* The sustainable withdrawal rate, 0.04, as a factor.
SustainableWithdrawalRate == (4 * Scale) \div 100

\* Faulty variant: meeting the desired income exactly does not count.
OnTrack_Strict(sustainable_annual_income, desired_retirement_income) ==
    sustainable_annual_income > desired_retirement_income

OnTrack(sustainable_annual_income, desired_retirement_income) ==
    sustainable_annual_income >= desired_retirement_income

\* Faulty variant: with no desired income the gap is reported as total.
IncomeGapPercentage_TotalWhenNoneDesired(income_gap, desired_retirement_income) ==
    IF desired_retirement_income > 0
    THEN Percent(income_gap, desired_retirement_income)
    ELSE 100 * Scale

IncomeGapPercentage(income_gap, desired_retirement_income) ==
    IF desired_retirement_income > 0
    THEN Percent(income_gap, desired_retirement_income)
    ELSE 0

\* The try body; a is the record of arguments.
RetirementBody(a) ==
    LET years_until_retirement == a.retirement_age - a.current_age
        retirement_years       == a.life_expectancy - a.retirement_age
        growth == PowInt(Scale + a.expected_return, years_until_retirement)
        monthly_return          == MonthlyRate(a.expected_return)
        months_until_retirement == years_until_retirement * 12
    IN  IF IsRaise(growth) THEN growth
        ELSE IF ~IsNumber(a.current_savings) THEN Raise("TypeError")
        ELSE LET
            future_value_current_savings == MulFactor(a.current_savings.num, growth.returned)
            future_value_contributions ==
                IF monthly_return > 0
                THEN RoundMulDiv(a.monthly_contribution * 12,
                        PowInt(OnePlus(monthly_return), months_until_retirement).returned
                        - Scale, monthly_return)
                ELSE a.monthly_contribution * months_until_retirement
            projected_savings == future_value_current_savings + future_value_contributions
            sustainable_annual_income ==
                MulFactor(projected_savings, SustainableWithdrawalRate)
            income_gap == a.desired_retirement_income - sustainable_annual_income
        IN  Return([years_until_retirement |-> years_until_retirement,
                    retirement_years |-> retirement_years,
                    projected_savings |-> projected_savings,
                    sustainable_annual_income |-> sustainable_annual_income,
                    income_gap |-> income_gap,
                    income_gap_percentage |->
                        IncomeGapPercentage(income_gap, a.desired_retirement_income),
                    on_track |->
                        OnTrack(sustainable_annual_income, a.desired_retirement_income)])

analyze_retirement_readiness(a) ==
    TryExcept(RetirementBody(a), "Error analyzing retirement readiness")

\* ---------------------------------------- analyze_mortgage_affordability
\* Home prices are sampled at price_multiple * PriceStep, price_multiple in
\* 1..LastPriceMultiple.
PriceStep == 50000

LastPriceMultiple == 15

\* The 28/36 rule: 0.28 and 0.36 as factors.
FrontEndRatio == (28 * Scale) \div 100

BackEndRatio == (36 * Scale) \div 100

\* A down payment below this share of the price, 0.2, requires PMI.
PmiThreshold == (2 * Scale) \div 10

\* Faulty variant: the larger of the two limits.
MaxHousingPayment_TakesLarger(front_end_max, back_end_max) ==
    Max(front_end_max, back_end_max)

MaxHousingPayment(front_end_max, back_end_max) == Min(front_end_max, back_end_max)

\* Faulty variant: a price with a zero loan amount is kept.
SkipsPrice_OnlyNegative(loan_amount) == loan_amount < 0

SkipsPrice(loan_amount) == loan_amount <= 0

\* Faulty variant: a down payment of exactly the threshold share requires PMI.
PmiRequired_AtThreshold(down_payment, home_price) ==
    RoundMulDiv(down_payment, Scale, home_price) <= PmiThreshold

PmiRequired(down_payment, home_price) ==
    RoundMulDiv(down_payment, Scale, home_price) < PmiThreshold

\* Faulty variant: the comparison the other way round.
IsAffordable_Reversed(monthly_total, max_housing_payment) ==
    monthly_total >= max_housing_payment

IsAffordable(monthly_total, max_housing_payment) == monthly_total <= max_housing_payment

\* Faulty variant: the first affordable price is kept.
NextMaxPrice_KeepsFirst(max_price, home_price, affordable) ==
    IF affordable /\ max_price = 0 THEN home_price ELSE max_price

NextMaxPrice(max_price, home_price, affordable) ==
    IF affordable THEN home_price ELSE max_price

\* The mortgage payment of one price point; either division can raise.
MonthlyMortgage(loan_amount, monthly_rate, total_payments) ==
    IF monthly_rate = 0
    THEN IF total_payments = 0 THEN Raise("ZeroDivisionError")
         ELSE Return(RoundDiv(loan_amount, total_payments))
    ELSE LET growth == Pow(OnePlus(monthly_rate), total_payments)
             den    == 12 * (growth - Scale)
         IN  IF den = 0 THEN Raise("ZeroDivisionError")
             ELSE Return(RoundMulDiv(loan_amount, MulFactor(monthly_rate, growth), den))

\* The statements before the loop: a holds the arguments.
MortgageSetup(a) ==
    IF ~IsNumber(a.income) THEN Raise("TypeError")
    ELSE LET monthly_income == RoundDiv(a.income.num, 12)
             front_end_max  == MulFactor(monthly_income, FrontEndRatio)
             back_end_max   == MulFactor(monthly_income, BackEndRatio) - a.debt
         IN  Return([max_housing_payment |-> MaxHousingPayment(front_end_max, back_end_max),
                     monthly_rate   |-> MonthlyRate(a.interest_rate),
                     total_payments |-> a.term_years * 12,
                     price_ranges   |-> <<>>,
                     max_price      |-> 0,
                     price_multiple |-> 1])

\* One pass of the loop body over the locals l.
MortgageIteration(l, a) ==
    LET home_price   == l.price_multiple * PriceStep
        loan_amount  == home_price - a.down_payment
        pmi_required == PmiRequired(a.down_payment, home_price)
        monthly_pmi  == IF pmi_required
                        THEN RoundMulDiv(loan_amount, a.pmi_rate, 12 * Scale)
                        ELSE 0
        mortgage     == MonthlyMortgage(loan_amount, l.monthly_rate, l.total_payments)
        monthly_tax  == RoundMulDiv(home_price, a.property_tax_rate, 12 * Scale)
        monthly_total == mortgage.returned + monthly_tax + a.insurance + monthly_pmi
        affordable   == IsAffordable(monthly_total, l.max_housing_payment)
        entry == [home_price |-> home_price, monthly_payment |-> monthly_total,
                  affordable |-> affordable,
                  details |-> [mortgage |-> mortgage.returned,
                               property_tax |-> monthly_tax,
                               insurance |-> a.insurance, pmi |-> monthly_pmi]]
    IN  IF SkipsPrice(loan_amount)
        THEN Return([l EXCEPT !.price_multiple = @ + 1])
        ELSE IF IsRaise(mortgage) THEN mortgage
        ELSE Return([l EXCEPT !.price_ranges = Append(@, entry),
                              !.max_price = NextMaxPrice(@, home_price, affordable),
                              !.price_multiple = @ + 1])

MortgageAnalysis(l) ==
    [max_housing_payment |-> l.max_housing_payment,
     max_affordable_price |-> l.max_price,
     price_ranges |-> l.price_ranges]

MortgageErrorPrefix == "Error analyzing mortgage affordability"

\* ------------------------------------------- calculate_portfolio_metrics
\* The result for no holdings at all.
EmptyPortfolioMetrics ==
    [total_value |-> 0, total_cost |-> 0, total_gain_loss |-> 0,
     total_gain_loss_pct |-> 0, holdings_data |-> <<>>]

\* (gain / cost) * 100 if cost > 0 else 0
GainLossPct(gain_loss, cost) == IF cost > 0 THEN Percent(gain_loss, cost) ELSE 0

\* Faulty variant: the cost of a holding without a price still enters total_cost.
PortfolioIteration_CountsCostOfSkipped(l, holding, hist) ==
    IF IsRaise(hist) THEN hist
    ELSE IF HistoryEmpty(hist)
    THEN Return([l EXCEPT !.total_cost = @ + holding.shares * holding.cost_basis,
                          !.index = @ + 1])
    ELSE LET latest_price  == CloseFromEnd(hist, 1)
             current_value == holding.shares * latest_price
             total_cost_basis == holding.shares * holding.cost_basis
             gain_loss     == current_value - total_cost_basis
         IN  Return([l EXCEPT
                !.holdings_data = Append(@,
                    [ticker |-> holding.ticker, shares |-> holding.shares,
                     cost_basis |-> holding.cost_basis, latest_price |-> latest_price,
                     current_value |-> current_value, gain_loss |-> gain_loss,
                     gain_loss_pct |-> GainLossPct(gain_loss, total_cost_basis)]),
                !.total_value = @ + current_value,
                !.total_cost = @ + total_cost_basis,
                !.index = @ + 1])

\* One pass of the loop body over the locals l, for the holding and the answer
\* hist of the gateway to the request for its one-day history.
PortfolioIteration(l, holding, hist) ==
    IF IsRaise(hist) THEN hist
    ELSE IF HistoryEmpty(hist) THEN Return([l EXCEPT !.index = @ + 1])
    ELSE LET latest_price  == CloseFromEnd(hist, 1)
             current_value == holding.shares * latest_price
             total_cost_basis == holding.shares * holding.cost_basis
             gain_loss     == current_value - total_cost_basis
         IN  Return([l EXCEPT
                !.holdings_data = Append(@,
                    [ticker |-> holding.ticker, shares |-> holding.shares,
                     cost_basis |-> holding.cost_basis, latest_price |-> latest_price,
                     current_value |-> current_value, gain_loss |-> gain_loss,
                     gain_loss_pct |-> GainLossPct(gain_loss, total_cost_basis)]),
                !.total_value = @ + current_value,
                !.total_cost = @ + total_cost_basis,
                !.index = @ + 1])

\* The statements after the loop.
PortfolioMetrics(l) ==
    LET total_gain_loss == l.total_value - l.total_cost
    IN  [total_value |-> l.total_value, total_cost |-> l.total_cost,
         total_gain_loss |-> total_gain_loss,
         total_gain_loss_pct |-> GainLossPct(total_gain_loss, l.total_cost),
         holdings_data |-> l.holdings_data]

PortfolioErrorPrefix == "Error calculating portfolio metrics"

\* ----------------------------------------------------------- database ----
\* The tables that hold one category each; a row carries the columns that the
\* category's get_user_* function selects, its id and its user_id (income rows
\* also the date that the query orders by).
Tables == {"expenses", "assets", "liabilities", "financial_goals",
           "investment_portfolio", "income_data", "ai_insights", "users"}

\* The five save functions that replace a user's rows, and the table of each.
FullReplaceSaves == {"save_expenses", "save_assets", "save_liabilities",
                     "save_financial_goals", "save_investment_portfolio"}

TableOf(fn) ==
    CASE fn \in {"save_expenses", "get_user_expenses"} -> "expenses"
      [] fn \in {"save_assets", "get_user_assets"} -> "assets"
      [] fn \in {"save_liabilities", "get_user_liabilities"} -> "liabilities"
      [] fn \in {"save_financial_goals", "get_user_financial_goals"} -> "financial_goals"
      [] fn \in {"save_investment_portfolio", "get_user_portfolio"} -> "investment_portfolio"
      [] OTHER -> "income_data"

\* SQL NULL, and None where a column is read back.
Null == "NULL"

\* dict.get(key, default)
DictGet(dict, key, default) == IF key \in DOMAIN dict THEN dict[key] ELSE default

\* The values bound to the columns of the INSERT of each save function for one
\* entry of its data (a key and a value of a dict, or an item of a list).
ColumnsOf(fn, entry) ==
    CASE fn = "save_expenses" -> [category |-> entry.key, amount |-> entry.value]
      [] fn = "save_assets" -> [name |-> entry.key, value |-> entry.value]
      [] fn = "save_liabilities" -> [name |-> entry.key, amount |-> entry.value]
      [] fn = "save_financial_goals" ->
            [name |-> entry.name, target_amount |-> entry.target_amount,
             current_amount |-> DictGet(entry, "current_amount", 0),
             deadline |-> DictGet(entry, "deadline", Null),
             priority |-> DictGet(entry, "priority", 0)]
      [] OTHER ->
            [ticker |-> entry.ticker, shares |-> entry.shares,
             cost_basis |-> entry.cost_basis,
             purchase_date |-> DictGet(entry, "purchase_date", Null)]

\* An empty database: no rows, and no id given out yet in any table.
EmptyDatabase == [t \in Tables |-> [rows |-> <<>>, seq |-> 0]]

\* SELECT ... FROM table WHERE user_id = ?, in the order of the table.
RowsOfUser(database, table, user_id) ==
    SelectSeq(database[table].rows, LAMBDA r : r.user_id = user_id)

\* Faulty variant: the DELETE without its WHERE clause.
DeleteWhereUser_Everyone(database, table, user_id) ==
    [database EXCEPT ![table].rows = <<>>]

\* DELETE FROM table WHERE user_id = ?
DeleteWhereUser(database, table, user_id) ==
    [database EXCEPT ![table].rows = SelectSeq(@, LAMBDA r : r.user_id # user_id)]

\* INSERT INTO table (user_id, columns...): the row takes the next id of the
\* table's AUTOINCREMENT sequence.
InsertRow(database, table, user_id, columns) ==
    LET id  == database[table].seq + 1
        row == [c \in DOMAIN columns \cup {"id", "user_id"} |->
                   IF c = "id" THEN id
                   ELSE IF c = "user_id" THEN user_id
                   ELSE columns[c]]
    IN  [database EXCEPT ![table].rows = Append(@, row), ![table].seq = id]

\* Faulty variant: every statement is committed as it is executed.
CommittedAfter_Autocommit(database, view, commit) == view

\* The committed database after a statement of a connection whose view of the
\* database, with the changes of its open transaction, is `view`: the changes
\* become part of the database when the connection commits, not before.
CommittedAfter(database, view, commit) == IF commit THEN view ELSE database

\* The dict that a loop over rows builds from a key and a value column: a later
\* row replaces an earlier one with the same key.
DictOfRows(rows, keyColumn, valueColumn) ==
    [k \in {rows[i][keyColumn] : i \in DOMAIN rows} |->
        LET last == CHOOSE i \in DOMAIN rows :
                        /\ rows[i][keyColumn] = k
                        /\ \A j \in DOMAIN rows : rows[j][keyColumn] = k => j <= i
        IN  rows[last][valueColumn]]

\* The row without its id and user_id: the dict appended for a selected row.
SelectedColumns(row) == [c \in DOMAIN row \ {"id", "user_id"} |-> row[c]]

get_user_expenses(database, user_id) ==
    DictOfRows(RowsOfUser(database, "expenses", user_id), "category", "amount")

get_user_assets(database, user_id) ==
    DictOfRows(RowsOfUser(database, "assets", user_id), "name", "value")

get_user_liabilities(database, user_id) ==
    DictOfRows(RowsOfUser(database, "liabilities", user_id), "name", "amount")

\* The orders in which ORDER BY priority DESC can deliver the rows: rows of
\* equal priority come in an order that the query leaves open.
OrdersByPriorityDesc(rows) ==
    LET n == Len(rows)
        perms == {p \in [1..n -> 1..n] : \A i, j \in 1..n : i # j => p[i] # p[j]}
    IN  {[i \in 1..n |-> rows[p[i]]] : p \in
            {q \in perms : \A i \in 1..n :
                i < n => rows[q[i]].priority >= rows[q[i + 1]].priority}}

\* The lists that get_user_financial_goals can return.
get_user_financial_goals(database, user_id) ==
    {[i \in DOMAIN ordered |-> SelectedColumns(ordered[i])] :
        ordered \in OrdersByPriorityDesc(RowsOfUser(database, "financial_goals", user_id))}

get_user_portfolio(database, user_id) ==
    LET rows == RowsOfUser(database, "investment_portfolio", user_id)
    IN  [i \in DOMAIN rows |-> SelectedColumns(rows[i])]

\* The values that get_user_income can return: the amount of a row of the user
\* with the latest date (ORDER BY date DESC LIMIT 1 leaves the choice among rows
\* of one date open), 0 when the user has no row.
get_user_income(database, user_id) ==
    LET rows == RowsOfUser(database, "income_data", user_id)
    IN  IF Len(rows) = 0 THEN {0}
        ELSE {rows[i].amount : i \in
                {k \in DOMAIN rows : \A j \in DOMAIN rows : rows[j].date <= rows[k].date}}

Gets == {"get_user_income", "get_user_expenses", "get_user_assets",
         "get_user_liabilities", "get_user_financial_goals", "get_user_portfolio"}

\* The values that a get function can return on the database.
GetResults(fn, database, user_id) ==
    CASE fn = "get_user_income" -> get_user_income(database, user_id)
      [] fn = "get_user_expenses" -> {get_user_expenses(database, user_id)}
      [] fn = "get_user_assets" -> {get_user_assets(database, user_id)}
      [] fn = "get_user_liabilities" -> {get_user_liabilities(database, user_id)}
      [] fn = "get_user_financial_goals" -> get_user_financial_goals(database, user_id)
      [] OTHER -> {get_user_portfolio(database, user_id)}

\* The sessions that use the store, each through connections of its own.
Sessions == {"s1", "s2"}

NoSession == "none"

Users == {1, 2}

\* A connection that is not open: no operation of the session is under way.
Idle == [pc |-> "idle", fn |-> "none", user |-> 0, data |-> <<>>, pending |-> <<>>,
         view |-> <<>>]

\* An entry of a dict: one (key, value) pair of dict.items().
Item(key, value) == [key |-> key, value |-> value]

\* The data given to each save function: the items of a dict in its order, or
\* the list of goals or holdings (optional keys left out in some).
SaveData(fn) ==
    CASE fn = "save_expenses" ->
            {<<Item("Housing", 1000), Item("Food", 300)>>, <<Item("Housing", 1200)>>}
      [] fn = "save_assets" ->
            {<<Item("Cash", 5000), Item("Home", 250000)>>}
      [] fn = "save_liabilities" ->
            {<<Item("Loan", 400), Item("Card", 1500)>>, <<>>}
      [] fn = "save_financial_goals" ->
            {<<[name |-> "Car", target_amount |-> 20000],
               [name |-> "Retire", target_amount |-> 100000, current_amount |-> 500,
                deadline |-> "2040-01-01", priority |-> 2],
               [name |-> "Trip", target_amount |-> 3000]>>}
      [] OTHER ->
            {<<[ticker |-> "AAA", shares |-> 10, cost_basis |-> 100],
               [ticker |-> "BBB", shares |-> 5, cost_basis |-> 80,
                purchase_date |-> "2024-01-02"],
               [ticker |-> "AAA", shares |-> 10, cost_basis |-> 100]>>}

\* The incomes that a user saves.
IncomeAmounts(user_id) == {100 * user_id, 100 * user_id + 50}

\* ---------------------------------------------------- advisory insights ----
\* A text is the JSON encoding of a value, or a text that is not valid JSON. A
\* Python string is a value of its own kind that holds a text: the string '12'
\* holds the text that is also the encoding of the number 12.
PlainText(chars) == [plain |-> chars]

JsonText(value) == [json |-> value]

PyStr(text) == [pystr |-> text]

\* json.dumps(value)
json_dumps(value) == JsonText(value)

\* json.loads(text)
json_loads(text) ==
    IF "json" \in DOMAIN text THEN Return(text.json) ELSE Raise("JSONDecodeError")

\* The text that save_ai_insight stores in the content column: the text of a
\* string as it is, the JSON encoding of any other value.
StoredContent(content) ==
    IF "pystr" \in DOMAIN content THEN content.pystr ELSE json_dumps(content)

\* The content that get_user_insights gives back for a stored text: what
\* json.loads makes of it, the text as a string when json.loads raises.
ParsedContent(text) ==
    IF IsRaise(json_loads(text)) THEN PyStr(text) ELSE json_loads(text).returned

\* No insight_type given: `if insight_type:` is false for None and for ''.
NoType == ""

\* The orders in which ORDER BY generated_at DESC can deliver the rows: rows of
\* one second come in an order that the query leaves open.
OrdersByGeneratedAtDesc(rows) ==
    LET n == Len(rows)
        perms == {p \in [1..n -> 1..n] : \A i, j \in 1..n : i # j => p[i] # p[j]}
    IN  {[i \in 1..n |-> rows[p[i]]] : p \in
            {q \in perms : \A i \in 1..n :
                i < n => rows[q[i]].generated_at >= rows[q[i + 1]].generated_at}}

\* The dict appended for a selected row of ai_insights.
InsightOfRow(row) ==
    [type |-> row.insight_type, content |-> ParsedContent(row.content),
     generated_at |-> row.generated_at]

\* The rows of ai_insights that the WHERE clause selects, in table order.
InsightRowsOf(database, user_id, insight_type) ==
    SelectSeq(database["ai_insights"].rows,
              LAMBDA r : /\ r.user_id = user_id
                         /\ insight_type # NoType => r.insight_type = insight_type)

\* The lists that get_user_insights can return for a limit >= 0.
get_user_insights(database, user_id, insight_type, limit) ==
    {[i \in 1..Min(limit, Len(ordered)) |-> InsightOfRow(ordered[i])] :
        ordered \in OrdersByGeneratedAtDesc(InsightRowsOf(database, user_id, insight_type))}

\* The insights that are saved: an advice text, a text that is valid JSON (the
\* digits of a number), and a value that is not a string.
InsightSaves ==
    {[type |-> "budget_analysis", content |-> PyStr(PlainText("Spend less on food"))],
     [type |-> "budget_analysis", content |-> PyStr(JsonText(Num(12)))],
     [type |-> "investment", content |-> [score |-> 12]]}

InsightLimits == {1, 5}

\* ----------------------------------------------------- advisory gateway ----
\* The provider during one call: the interaction with it that fails ("never"
\* when none does) and the text of its reply.
Provider(fails_at, reply) == [fails_at |-> fails_at, reply |-> reply]

\* f"An error occurred: {e}"
ErrorString(e) == PyStr(PlainText(<<"An error occurred: ", e>>))

\* The three messages are sent before the try statement; only the reading of
\* chat.last.text is inside it.
generate_financial_adivice(query, financial_content, provider) ==
    IF provider.fails_at = "send_message(system_prompt)"
    THEN Raise("ProviderError")
    ELSE IF financial_content # Null /\ provider.fails_at = "send_message(context_message)"
    THEN Raise("ProviderError")
    ELSE IF provider.fails_at = "send_message(query)"
    THEN Raise("ProviderError")
    ELSE IF provider.fails_at = "last.text"
    THEN Return(ErrorString("ProviderError"))
    ELSE Return(PyStr(provider.reply))

\* generate_content and the reading of response.text are inside the try; a
\* reply that is valid JSON is returned encoded again, any other as it is.
analyze_budget(income, expenses, provider) ==
    IF provider.fails_at \in {"generate_content", "response.text"}
    THEN Return(ErrorString("ProviderError"))
    ELSE IF IsRaise(json_loads(provider.reply))
    THEN Return(PyStr(provider.reply))
    ELSE Return(PyStr(json_dumps(json_loads(provider.reply).returned)))

investement_advise(risk_involved, investment_horizon, provider) ==
    IF provider.fails_at \in {"generate_content", "response.text"}
    THEN Return(ErrorString("ProviderError"))
    ELSE Return(PyStr(provider.reply))

\* The provider as a chat call and as a generate_content call can meet it.
ChatProviders ==
    {Provider(f, PlainText("Pay the card first")) :
        f \in {"never", "send_message(system_prompt)", "send_message(context_message)",
               "send_message(query)", "last.text"}}

ContentProviders ==
    {Provider(f, r) : f \in {"never", "generate_content", "response.text"},
                      r \in {PlainText("Spend less on food"),
                             JsonText([overall_analysis |-> "balanced"])}}

\* --------------------------------------------------- categorize_expenses ----
\* A description is the sequence of its characters. category_keywords in its
\* declaration order, each keyword as the sequence of its characters.
CategoryKeywords ==
    <<
     [category |-> "Housing", keywords |-> <<
            <<"r", "e", "n", "t">>,
            <<"m", "o", "r", "t", "g", "a", "g", "e">>,
            <<"h", "o", "a">>,
            <<"p", "r", "o", "p", "e", "r", "t", "y", " ", "t", "a", "x">>>>],
     [category |-> "Utilities", keywords |-> <<
            <<"e", "l", "e", "c", "t", "r", "i", "c">>,
            <<"g", "a", "s">>,
            <<"w", "a", "t", "e", "r">>,
            <<"i", "n", "t", "e", "r", "n", "e", "t">>,
            <<"p", "h", "o", "n", "e">>,
            <<"u", "t", "i", "l", "i", "t", "y">>>>],
     [category |-> "Groceries", keywords |-> <<
            <<"g", "r", "o", "c", "e", "r", "y">>,
            <<"g", "r", "o", "c", "e", "r", "i", "e", "s">>,
            <<"s", "u", "p", "e", "r", "m", "a", "r", "k", "e", "t">>,
            <<"f", "o", "o", "d">>>>],
     [category |-> "Transportation", keywords |-> <<
            <<"g", "a", "s">>,
            <<"f", "u", "e", "l">>,
            <<"c", "a", "r">>,
            <<"a", "u", "t", "o">>,
            <<"t", "r", "a", "n", "s", "p", "o", "r", "t", "a", "t", "i", "o", "n">>,
            <<"u", "b", "e", "r">>,
            <<"l", "y", "f", "t">>,
            <<"t", "a", "x", "i">>>>],
     [category |-> "Dining", keywords |-> <<
            <<"r", "e", "s", "t", "a", "u", "r", "a", "n", "t">>,
            <<"c", "a", "f", "e">>,
            <<"c", "o", "f", "f", "e", "e">>,
            <<"d", "i", "n", "i", "n", "g">>,
            <<"d", "o", "o", "r", "d", "a", "s", "h">>,
            <<"g", "r", "u", "b", "h", "u", "b">>,
            <<"t", "a", "k", "e", "o", "u", "t">>>>],
     [category |-> "Entertainment", keywords |-> <<
            <<"m", "o", "v", "i", "e">>,
            <<"s", "u", "b", "s", "c", "r", "i", "p", "t", "i", "o", "n">>,
            <<"n", "e", "t", "f", "l", "i", "x">>,
            <<"s", "p", "o", "t", "i", "f", "y">>,
            <<"e", "n", "t", "e", "r", "t", "a", "i", "n", "m", "e", "n", "t">>>>],
     [category |-> "Shopping", keywords |-> <<
            <<"a", "m", "a", "z", "o", "n">>,
            <<"w", "a", "l", "m", "a", "r", "t">>,
            <<"t", "a", "r", "g", "e", "t">>,
            <<"s", "h", "o", "p", "p", "i", "n", "g">>,
            <<"c", "l", "o", "t", "h", "e", "s">>,
            <<"c", "l", "o", "t", "h", "i", "n", "g">>>>],
     [category |-> "Health", keywords |-> <<
            <<"d", "o", "c", "t", "o", "r">>,
            <<"m", "e", "d", "i", "c", "a", "l">>,
            <<"p", "h", "a", "r", "m", "a", "c", "y">>,
            <<"h", "e", "a", "l", "t", "h">>,
            <<"i", "n", "s", "u", "r", "a", "n", "c", "e">>,
            <<"d", "e", "n", "t", "a", "l">>,
            <<"v", "i", "s", "i", "o", "n">>>>],
     [category |-> "Education", keywords |-> <<
            <<"s", "c", "h", "o", "o", "l">>,
            <<"t", "u", "i", "t", "i", "o", "n">>,
            <<"b", "o", "o", "k">>,
            <<"c", "o", "u", "r", "s", "e">>,
            <<"e", "d", "u", "c", "a", "t", "i", "o", "n">>>>],
     [category |-> "Personal", keywords |-> <<
            <<"h", "a", "i", "r", "c", "u", "t">>,
            <<"g", "y", "m">>,
            <<"f", "i", "t", "n", "e", "s", "s">>,
            <<"p", "e", "r", "s", "o", "n", "a", "l">>>>]
    >>

\* str.lower() of one character and of a string.
LowerChar(c) ==
    CASE c = "A" -> "a"
      [] c = "B" -> "b"
      [] c = "C" -> "c"
      [] c = "D" -> "d"
      [] c = "E" -> "e"
      [] c = "F" -> "f"
      [] c = "G" -> "g"
      [] c = "H" -> "h"
      [] c = "I" -> "i"
      [] c = "J" -> "j"
      [] c = "K" -> "k"
      [] c = "L" -> "l"
      [] c = "M" -> "m"
      [] c = "N" -> "n"
      [] c = "O" -> "o"
      [] c = "P" -> "p"
      [] c = "Q" -> "q"
      [] c = "R" -> "r"
      [] c = "S" -> "s"
      [] c = "T" -> "t"
      [] c = "U" -> "u"
      [] c = "V" -> "v"
      [] c = "W" -> "w"
      [] c = "X" -> "x"
      [] c = "Y" -> "y"
      [] c = "Z" -> "z"
      [] OTHER -> c

Lower(chars) == [i \in DOMAIN chars |-> LowerChar(chars[i])]

\* keyword in description: the keyword is a substring of the description.
Occurs(keyword, description) ==
    \E i \in 1..(Len(description) - Len(keyword) + 1) :
        SubSeq(description, i, i + Len(keyword) - 1) = keyword

\* any(keyword in description for keyword in keywords)
AnyKeywordOccurs(keywords, description) ==
    \E k \in DOMAIN keywords : Occurs(keywords[k], description)

\* Faulty variant: the loop over the categories without its break, the amount
\* going to the last category that matches.
RECURSIVE CategoryFrom_NoBreak(_, _)
CategoryFrom_NoBreak(i, description) ==
    IF i > Len(CategoryKeywords) THEN "Other"
    ELSE LET later == CategoryFrom_NoBreak(i + 1, description)
         IN  IF later # "Other" THEN later
             ELSE IF AnyKeywordOccurs(CategoryKeywords[i].keywords, description)
             THEN CategoryKeywords[i].category
             ELSE "Other"

\* The loop over category_keywords.items() from its i-th item on: it breaks at
\* the first category with a keyword in the description; 'Other' when it ends
\* without one.
RECURSIVE CategoryFrom(_, _)
CategoryFrom(i, description) ==
    IF i > Len(CategoryKeywords) THEN "Other"
    ELSE IF AnyKeywordOccurs(CategoryKeywords[i].keywords, description)
    THEN CategoryKeywords[i].category
    ELSE CategoryFrom(i + 1, description)

\* categories = {category: 0 ...}; categories['Other'] = 0
InitialCategories ==
    [c \in {CategoryKeywords[i].category : i \in DOMAIN CategoryKeywords} \cup {"Other"}
        |-> 0]

\* One pass of the loop over the transactions.
CategorizeIteration(categories, transaction) ==
    IF transaction.amount <= 0
    THEN [categories EXCEPT
             ![CategoryFrom(1, Lower(transaction.description))] =
                 @ + Abs(transaction.amount)]
    ELSE categories

\* {k: v for k, v in categories.items() if v > 0}
PositiveCategories(categories) ==
    [k \in {c \in DOMAIN categories : categories[c] > 0} |-> categories[k]]

\* The transactions of a statement: fuel paid at a gas station, a ride, a gift
\* card, a payment that matches no keyword, a transaction of amount 0 and a
\* salary.
Transactions ==
    {[amount |-> -40, description |-> <<"S", "h", "e", "l", "l", " ", "G", "A", "S">>],
     [amount |-> -25, description |-> <<"U", "b", "e", "r">>],
     [amount |-> -15, description |-> <<"g", "i", "f", "t", " ", "c", "a", "r", "d">>],
     [amount |-> -10, description |-> <<"m", "i", "s", "c">>],
     [amount |-> 0, description |-> <<"R", "e", "n", "t">>],
     [amount |-> 1000, description |-> <<"s", "a", "l", "a", "r", "y", " ", "f", "o", "o", "d">>]}

MaxTransactions == 3

TransactionLists ==
    UNION {[1..n -> Transactions] : n \in 0..MaxTransactions}

\* ------------------------------------------------------------------ users ----
\* SELECT id FROM users WHERE username = ?
UserIds(database, username) ==
    {database["users"].rows[i].id :
        i \in {j \in DOMAIN database["users"].rows :
                  database["users"].rows[j].username = username}}

\* The INSERT violates username UNIQUE or email UNIQUE; NULL emails are
\* distinct from each other, empty strings are not.
UniqueFails(database, username, email) ==
    \E i \in DOMAIN database["users"].rows :
        \/ database["users"].rows[i].username = username
        \/ email # Null /\ database["users"].rows[i].email = email

\* The branch that creates the user: INSERT, commit, cursor.lastrowid.
CreateUser(database, username, email) ==
    IF UniqueFails(database, username, email)
    THEN [outcome |-> Raise("IntegrityError"), db |-> database]
    ELSE LET id == database["users"].seq + 1
         IN  [outcome |-> Return(id),
              db |-> [database EXCEPT
                         !["users"].rows =
                             Append(@, [id |-> id, username |-> username, email |-> email]),
                         !["users"].seq = id]]

\* get_or_create_user run without another session in between.
get_or_create_user(database, username, email) ==
    IF UserIds(database, username) # {}
    THEN [outcome |-> Return(CHOOSE id \in UserIds(database, username) : TRUE),
          db |-> database]
    ELSE CreateUser(database, username, email)

Usernames == {"asha", "ravi"}

\* No email (None), the empty string of an empty input field, and an address.
Emails == {Null, "", "asha@example.org"}

\* ------------------------------------------------------- the application ----
\* st.session_state of a session as the script initialises it; user_id 0
\* stands for None, no user bound.
DefaultSession ==
    [authenticated |-> FALSE, user_id |-> 0, username |-> Null, income |-> 0,
     expenses |-> <<>>, assets |-> <<>>, liabilities |-> <<>>,
     financial_goals |-> <<>>, portfolio |-> <<>>]

\* dict.items(): the items of a dict, in an order of its keys.
RECURSIVE ItemsOf(_)
ItemsOf(dict) ==
    IF DOMAIN dict = {} THEN <<>>
    ELSE LET k == CHOOSE x \in DOMAIN dict : TRUE
         IN  <<Item(k, dict[k])>> \o ItemsOf([x \in DOMAIN dict \ {k} |-> dict[x]])

\* The loop of INSERTs of a save function, run to its end.
RECURSIVE InsertAll(_, _, _, _)
InsertAll(database, fn, user_id, data) ==
    IF Len(data) = 0 THEN database
    ELSE InsertAll(InsertRow(database, TableOf(fn), user_id, ColumnsOf(fn, Head(data))),
                   fn, user_id, Tail(data))

\* One of the five full-replace saves run from its DELETE to its commit.
SaveAll(database, fn, user_id, data) ==
    InsertAll(DeleteWhereUser(database, TableOf(fn), user_id), fn, user_id, data)

\* save_income run to its commit at the clock reading `now`.
SaveIncome(database, user_id, amount, now) ==
    InsertRow(database, "income_data", user_id, [amount |-> amount, date |-> now])

\* The body of the Save Data button: goals and portfolio are saved only when
\* the session's list is not empty.
SaveData_Button(database, session, now) ==
    LET u  == session.user_id
        d1 == SaveIncome(database, u, session.income, now)
        d2 == SaveAll(d1, "save_expenses", u, ItemsOf(session.expenses))
        d3 == SaveAll(d2, "save_assets", u, ItemsOf(session.assets))
        d4 == SaveAll(d3, "save_liabilities", u, ItemsOf(session.liabilities))
        d5 == IF Len(session.financial_goals) > 0
              THEN SaveAll(d4, "save_financial_goals", u, session.financial_goals)
              ELSE d4
    IN  IF Len(session.portfolio) > 0
        THEN SaveAll(d5, "save_investment_portfolio", u, session.portfolio)
        ELSE d5

\* The twelve predefined expense categories of the Budget Analyzer page.
ExpenseCategories ==
    {"Housing (Rent/Mortgage)", "Utilities (Electricity, Water, Gas)", "Groceries",
     "Transportation", "Health Care", "Entertainment", "Dining Out", "Shopping",
     "Education", "Insurance", "Savings", "Other"}

\* A number input that the user has left as it was rendered.
Unchanged == -1

\* expenses.get(category, 0.0)
ExpenseDefault(expenses, category) ==
    IF category \in DOMAIN expenses THEN expenses[category] ELSE 0

\* What a number input returns: its default, or what the user has entered.
InputValue(entered, default) == IF entered = Unchanged THEN default ELSE entered

\* updated_expenses as the page builds it: the predefined categories with a
\* value > 0, and the custom category when one is typed in and its value is > 0.
UpdatedExpenses(expenses, input) ==
    LET value(c) ==
            IF c = input.custom_category
            THEN InputValue(input.custom_value, ExpenseDefault(expenses, c))
            ELSE InputValue(IF c \in DOMAIN input.edits THEN input.edits[c] ELSE Unchanged,
                            ExpenseDefault(expenses, c))
        shown == ExpenseCategories \cup
                    (IF input.custom_category = "" THEN {} ELSE {input.custom_category})
    IN  [c \in {x \in shown : value(x) > 0} |-> value(c)]

\* What the user does on the Budget Analyzer page: nothing, a new income, a new
\* amount for Groceries, or a custom category typed in with an amount.
NoInput == [income |-> Unchanged, edits |-> <<>>, custom_category |-> "",
            custom_value |-> Unchanged]

BudgetInputs ==
    {NoInput,
     [NoInput EXCEPT !.income = 4000],
     [NoInput EXCEPT !.edits = [c \in {"Groceries"} |-> 450]],
     [NoInput EXCEPT !.custom_category = "Pets", !.custom_value = 80]}

\* A store that earlier sessions have used: asha is registered and has an
\* income, expenses with a category of her own, assets, goals and a holding.
SeededDatabase ==
    LET d0 == get_or_create_user(EmptyDatabase, "asha", Null).db
        d1 == SaveIncome(d0, 1, 3000, 0)
        d2 == SaveAll(d1, "save_expenses", 1,
                      <<Item("Groceries", 300), Item("Pets", 50)>>)
        d3 == SaveAll(d2, "save_assets", 1, <<Item("Cash", 5000)>>)
        d4 == SaveAll(d3, "save_financial_goals", 1,
                      <<[name |-> "Car", target_amount |-> 20000]>>)
    IN  SaveAll(d4, "save_investment_portfolio", 1,
                <<[ticker |-> "AAA", shares |-> 10, cost_basis |-> 100]>>)

\* ------------------------------------------------------------ inputs ----
Years == 1..MaxYears

Principals == {-1200, 1200, 100000, 250000}

\* 0, a rate that 1 + rate/12 absorbs, 7% and 12%.
AnnualRates == {0, 3, (7 * Scale) \div 100, (12 * Scale) \div 100}

Incomes == {0, 3000, 50000}

ExpenseMaps ==
    {<<>>} \cup
    {[c \in {"Housing"} |-> a] : a \in {0, 1000, 4000}} \cup
    {[c \in {"Housing", "Food"} |-> IF c = "Housing" THEN a ELSE b] :
        a \in {0, 1000}, b \in {500, 2500}}

InitialInvestments == {0, 1000, 50000}

MonthlyContributions == {-100, 0, 500}

ProjectionYears == 0..MaxYears

GrowthRates == {0, 3, (7 * Scale) \div 100}

\* Loan terms, the degenerate term of no years included.
LoanYears == 0..MaxYears

LoanPrincipals == Principals \cup {0, 1000}

\* Numerators and denominators of the two ratios.
RatioNumerators == {-500, 0, 500, 2000}

RatioDenominators == {-1000, 0, 3, 4000}

AssetMaps ==
    {None, <<>>, [c \in {"cash"} |-> 1000],
     [c \in {"cash", "house"} |-> IF c = "cash" THEN 1000 ELSE 250000]}

LiabilityMaps ==
    {None, <<>>, [c \in {"loan"} |-> 400],
     [c \in {"loan", "card"} |-> IF c = "loan" THEN 400 ELSE 1500]}

Tickers == {"AAA", "BBB", "CCC"}

Holdings == [ticker : Tickers, shares : {10}, cost_basis : {0, 100}]

RECURSIVE SeqsUpTo(_, _)
SeqsUpTo(S, n) ==
    IF n = 0 THEN {<<>>}
    ELSE LET shorter == SeqsUpTo(S, n - 1)
         IN  shorter \cup {Append(q, x) : q \in shorter, x \in S}

HoldingLists == SeqsUpTo(Holdings, MaxHoldings)

\* The gateway's answer for each ticker's one-day history: a latest close, no
\* data, or a failed request.
DayRows(ticker) ==
    CASE ticker = "AAA" -> <<DayRow(148, 149, 140), DayRow(150, 155, 147)>>
      [] ticker = "BBB" -> <<DayRow(80, 82, 78)>>
      [] OTHER          -> <<DayRow(20, 20, 20)>>

DayMarkets ==
    {m \in [Tickers -> {History(DayRows(t)) : t \in Tickers}
                        \cup {History(<<>>), FetchFails}] :
        \A t \in Tickers :
            IsRaise(m[t]) \/ HistoryEmpty(m[t]) \/ m[t] = History(DayRows(t))}

\* The numbers of rows of the one-year histories enumerated: none, one, and the
\* lengths around each window.
HistoryLengths == {0, 1, 20, 21, 22, 62, 63, 64, 251, 252, 253}

\* A year of daily rows of n days: closes that rise steadily, or that swing.
YearRows(n, shape) ==
    [i \in 1..n |->
        LET close == IF shape = "rising" THEN 100 + i ELSE 100 + ((i * 7) % 23)
        IN  DayRow(close, close + 3, close - 2)]

YearHistories ==
    {History(YearRows(n, shape)) : n \in HistoryLengths, shape \in {"rising", "swinging"}}
        \cup {FetchFails}

\* stock.info: the descriptive fields, some or all of them missing.
StockInfos ==
    {[k \in {"longName", "trailingPE", "dividendYield"} |->
        CASE k = "longName" -> "Acme Corp"
          [] k = "trailingPE" -> Num(15)
          [] OTHER -> 20000],
     <<>>, FetchFails}

RetirementArgs ==
    [current_age : {30}, retirement_age : {28, 31, 32}, life_expectancy : {85},
     current_savings : {NotANumber, Num(0), Num(10000)},
     monthly_contribution : {0, 200},
     expected_return : {-Scale, 0, (7 * Scale) \div 100},
     desired_retirement_income : {0, 500, 40000}]

MortgageArgs ==
    [income : {NotANumber, Num(60000), Num(1200000)},
     debt : {0, 500, 3000},
     down_payment : {0, 10000, 200000, 800000},
     interest_rate : {0, 3, (8 * Scale) \div 100},
     term_years : {0, 15, 30},
     property_tax_rate : {Scale \div 100},
     insurance : {100},
     pmi_rate : {(5 * Scale) \div 1000}]

\* ----------------------------------------------------------- machine ----
\* pc is "call" before the function runs, "loop" inside its loop and "done" once
\* it has returned or raised; local holds the function's local variables.
\* The store before any session has used it.
StoreInit ==
    /\ db = EmptyDatabase
    /\ conn = [s \in Sessions |-> Idle]
    /\ lock = NoSession
    /\ clock = 0
    /\ started = 0

Init ==
    /\ pc = "call"
    /\ result = NoResult
    /\ local = NoLocals
    /\ StoreInit
    /\ \/ \E i \in Incomes, e \in ExpenseMaps :
            call = [fn |-> "calculate_budget_summary", income |-> i, expenses |-> e]
       \/ \E p \in Principals, r \in AnnualRates, y \in Years :
            call = [fn |-> "generate_amortization_schedule",
                    principal |-> p, annual_rate |-> r, years |-> y]
       \/ \E i \in InitialInvestments, m \in MonthlyContributions,
             y \in ProjectionYears, r \in GrowthRates :
            \E f \in {"calculate_investment_returns", "create_investment_growth_chart"} :
                call = [fn |-> f, initial_investment |-> i, monthly_contribution |-> m,
                        years |-> y, rate_of_return |-> r]
       \/ \E a \in RetirementArgs :
            call = [fn |-> "analyze_retirement_readiness", args |-> a]
       \/ \E a \in MortgageArgs :
            call = [fn |-> "analyze_mortgage_affordability", args |-> a]
       \/ \E p \in LoanPrincipals, r \in AnnualRates, y \in LoanYears :
            call = [fn |-> "calculate_loan_payment",
                    principal |-> p, annual_rate |-> r, years |-> y]
       \/ \E n \in RatioNumerators, d \in RatioDenominators :
            \E f \in {"calculate_debt_to_income_ratio", "calculate_emergency_fund_ratio"} :
                call = [fn |-> f, numerator |-> n, denominator |-> d]
       \/ \E h \in HoldingLists, m \in DayMarkets :
            call = [fn |-> "calculate_portfolio_metrics", holdings |-> h, market |-> m]
       \/ \E i \in StockInfos, h \in YearHistories :
            call = [fn |-> "get_stock_metrics", ticker |-> "AAA", info |-> i, hist |-> h]
       \/ \E a \in AssetMaps, l \in LiabilityMaps :
            call = [fn |-> "calculate_net_worth", assets |-> a, liabilities |-> l]
       \/ \E t \in TransactionLists :
            call = [fn |-> "categorize_expenses", transactions |-> t]
       \/ \E c \in {Null, "income 50000"}, p \in ChatProviders :
            call = [fn |-> "generate_financial_adivice", query |-> "How can I save?",
                    financial_content |-> c, provider |-> p]
       \/ \E i \in Incomes, e \in ExpenseMaps, p \in ContentProviders :
            call = [fn |-> "analyze_budget", income |-> i, expenses |-> e, provider |-> p]
       \/ \E r \in {"low", "high"}, p \in ContentProviders :
            call = [fn |-> "investement_advise", risk_involved |-> r,
                    investment_horizon |-> "long-term", provider |-> p]

Call_calculate_budget_summary ==
    /\ pc = "call"
    /\ call.fn = "calculate_budget_summary"
    /\ result' = Return(calculate_budget_summary(call.income, call.expenses))
    /\ pc' = "done"
    /\ UNCHANGED <<call, local>>
    /\ UNCHANGED store

Begin_generate_amortization_schedule ==
    /\ pc = "call"
    /\ call.fn = "generate_amortization_schedule"
    /\ LET payment == calculate_loan_payment(call.principal, call.annual_rate, call.years)
       IN  IF IsRaise(payment)
           THEN /\ result' = payment
                /\ pc' = "done"
                /\ UNCHANGED local
           ELSE /\ local' = [monthly_payment |-> payment.returned,
                             monthly_rate |-> MonthlyRate(call.annual_rate),
                             n_payments |-> call.years * 12,
                             schedule |-> <<>>,
                             remaining_balance |-> call.principal,
                             month |-> 1]
                /\ pc' = "loop"
                /\ UNCHANGED result
    /\ UNCHANGED call
    /\ UNCHANGED store

Step_generate_amortization_schedule ==
    /\ pc = "loop"
    /\ call.fn = "generate_amortization_schedule"
    /\ local.month <= local.n_payments
    /\ local' = AmortizationStep(local)
    /\ UNCHANGED <<pc, call, result>>
    /\ UNCHANGED store

Return_generate_amortization_schedule ==
    /\ pc = "loop"
    /\ call.fn = "generate_amortization_schedule"
    /\ local.month > local.n_payments
    /\ result' = Return(local.schedule)
    /\ pc' = "done"
    /\ UNCHANGED <<call, local>>
    /\ UNCHANGED store

Call_calculate_investment_returns ==
    /\ pc = "call"
    /\ call.fn = "calculate_investment_returns"
    /\ result' = Return(calculate_investment_returns(call.initial_investment,
                            call.monthly_contribution, call.years, call.rate_of_return))
    /\ pc' = "done"
    /\ UNCHANGED <<call, local>>
    /\ UNCHANGED store

Begin_create_investment_growth_chart ==
    /\ pc = "call"
    /\ call.fn = "create_investment_growth_chart"
    /\ local' = [current_value |-> call.initial_investment,
                 total_contributions |-> call.initial_investment,
                 year |-> 1,
                 data |-> <<InitialPoint(call.initial_investment)>>]
    /\ pc' = "loop"
    /\ UNCHANGED <<call, result>>
    /\ UNCHANGED store

Step_create_investment_growth_chart ==
    /\ pc = "loop"
    /\ call.fn = "create_investment_growth_chart"
    /\ local.year <= call.years
    /\ local' = GrowthYearStep(local, MonthlyRate(call.rate_of_return),
                               call.monthly_contribution)
    /\ UNCHANGED <<pc, call, result>>
    /\ UNCHANGED store

Return_create_investment_growth_chart ==
    /\ pc = "loop"
    /\ call.fn = "create_investment_growth_chart"
    /\ local.year > call.years
    /\ result' = Return(local.data)
    /\ pc' = "done"
    /\ UNCHANGED <<call, local>>
    /\ UNCHANGED store

Call_analyze_retirement_readiness ==
    /\ pc = "call"
    /\ call.fn = "analyze_retirement_readiness"
    /\ result' = analyze_retirement_readiness(call.args)
    /\ pc' = "done"
    /\ UNCHANGED <<call, local>>
    /\ UNCHANGED store

Begin_analyze_mortgage_affordability ==
    /\ pc = "call"
    /\ call.fn = "analyze_mortgage_affordability"
    /\ LET setup == MortgageSetup(call.args)
       IN  IF IsRaise(setup)
           THEN /\ result' = TryExcept(setup, MortgageErrorPrefix)
                /\ pc' = "done"
                /\ UNCHANGED local
           ELSE /\ local' = setup.returned
                /\ pc' = "loop"
                /\ UNCHANGED result
    /\ UNCHANGED call
    /\ UNCHANGED store

Step_analyze_mortgage_affordability ==
    /\ pc = "loop"
    /\ call.fn = "analyze_mortgage_affordability"
    /\ local.price_multiple <= LastPriceMultiple
    /\ LET pass == MortgageIteration(local, call.args)
       IN  IF IsRaise(pass)
           THEN /\ result' = TryExcept(pass, MortgageErrorPrefix)
                /\ pc' = "done"
                /\ UNCHANGED local
           ELSE /\ local' = pass.returned
                /\ UNCHANGED <<pc, result>>
    /\ UNCHANGED call
    /\ UNCHANGED store

Return_analyze_mortgage_affordability ==
    /\ pc = "loop"
    /\ call.fn = "analyze_mortgage_affordability"
    /\ local.price_multiple > LastPriceMultiple
    /\ result' = Return(MortgageAnalysis(local))
    /\ pc' = "done"
    /\ UNCHANGED <<call, local>>
    /\ UNCHANGED store

Call_calculate_loan_payment ==
    /\ pc = "call"
    /\ call.fn = "calculate_loan_payment"
    /\ result' = calculate_loan_payment(call.principal, call.annual_rate, call.years)
    /\ pc' = "done"
    /\ UNCHANGED <<call, local>>
    /\ UNCHANGED store

Call_calculate_debt_to_income_ratio ==
    /\ pc = "call"
    /\ call.fn = "calculate_debt_to_income_ratio"
    /\ result' = Return(calculate_debt_to_income_ratio(call.numerator, call.denominator))
    /\ pc' = "done"
    /\ UNCHANGED <<call, local>>
    /\ UNCHANGED store

Call_calculate_emergency_fund_ratio ==
    /\ pc = "call"
    /\ call.fn = "calculate_emergency_fund_ratio"
    /\ result' = Return(calculate_emergency_fund_ratio(call.numerator, call.denominator))
    /\ pc' = "done"
    /\ UNCHANGED <<call, local>>
    /\ UNCHANGED store

Call_calculate_net_worth ==
    /\ pc = "call"
    /\ call.fn = "calculate_net_worth"
    /\ result' = Return(calculate_net_worth(call.assets, call.liabilities))
    /\ pc' = "done"
    /\ UNCHANGED <<call, local>>
    /\ UNCHANGED store

Begin_calculate_portfolio_metrics ==
    /\ pc = "call"
    /\ call.fn = "calculate_portfolio_metrics"
    /\ IF Len(call.holdings) = 0
       THEN /\ result' = Return(EmptyPortfolioMetrics)
            /\ pc' = "done"
            /\ UNCHANGED local
       ELSE /\ local' = [holdings_data |-> <<>>, total_value |-> 0,
                         total_cost |-> 0, index |-> 1]
            /\ pc' = "loop"
            /\ UNCHANGED result
    /\ UNCHANGED call
    /\ UNCHANGED store

Step_calculate_portfolio_metrics ==
    /\ pc = "loop"
    /\ call.fn = "calculate_portfolio_metrics"
    /\ local.index <= Len(call.holdings)
    /\ LET holding == call.holdings[local.index]
           pass == PortfolioIteration(local, holding, call.market[holding.ticker])
       IN  IF IsRaise(pass)
           THEN /\ result' = TryExcept(pass, PortfolioErrorPrefix)
                /\ pc' = "done"
                /\ UNCHANGED local
           ELSE /\ local' = pass.returned
                /\ UNCHANGED <<pc, result>>
    /\ UNCHANGED call
    /\ UNCHANGED store

Return_calculate_portfolio_metrics ==
    /\ pc = "loop"
    /\ call.fn = "calculate_portfolio_metrics"
    /\ local.index > Len(call.holdings)
    /\ result' = Return(PortfolioMetrics(local))
    /\ pc' = "done"
    /\ UNCHANGED <<call, local>>
    /\ UNCHANGED store

Call_get_stock_metrics ==
    /\ pc = "call"
    /\ call.fn = "get_stock_metrics"
    /\ result' = get_stock_metrics(call.ticker, call.info, call.hist)
    /\ pc' = "done"
    /\ UNCHANGED <<call, local>>
    /\ UNCHANGED store

Call_generate_financial_adivice ==
    /\ pc = "call"
    /\ call.fn = "generate_financial_adivice"
    /\ result' = generate_financial_adivice(call.query, call.financial_content,
                                            call.provider)
    /\ pc' = "done"
    /\ UNCHANGED <<call, local>>
    /\ UNCHANGED store

Call_analyze_budget ==
    /\ pc = "call"
    /\ call.fn = "analyze_budget"
    /\ result' = analyze_budget(call.income, call.expenses, call.provider)
    /\ pc' = "done"
    /\ UNCHANGED <<call, local>>
    /\ UNCHANGED store

Call_investement_advise ==
    /\ pc = "call"
    /\ call.fn = "investement_advise"
    /\ result' = investement_advise(call.risk_involved, call.investment_horizon,
                                    call.provider)
    /\ pc' = "done"
    /\ UNCHANGED <<call, local>>
    /\ UNCHANGED store

Begin_categorize_expenses ==
    /\ pc = "call"
    /\ call.fn = "categorize_expenses"
    /\ local' = [categories |-> InitialCategories, index |-> 1]
    /\ pc' = "loop"
    /\ UNCHANGED <<call, result>>
    /\ UNCHANGED store

Step_categorize_expenses ==
    /\ pc = "loop"
    /\ call.fn = "categorize_expenses"
    /\ local.index <= Len(call.transactions)
    /\ local' = [categories |-> CategorizeIteration(local.categories,
                                                    call.transactions[local.index]),
                 index |-> local.index + 1]
    /\ UNCHANGED <<pc, call, result>>
    /\ UNCHANGED store

Return_categorize_expenses ==
    /\ pc = "loop"
    /\ call.fn = "categorize_expenses"
    /\ local.index > Len(call.transactions)
    /\ result' = Return(PositiveCategories(local.categories))
    /\ pc' = "done"
    /\ UNCHANGED <<call, local>>
    /\ UNCHANGED store

Next ==
    \/ Call_calculate_budget_summary
    \/ Begin_generate_amortization_schedule
    \/ Step_generate_amortization_schedule
    \/ Return_generate_amortization_schedule
    \/ Call_calculate_investment_returns
    \/ Begin_create_investment_growth_chart
    \/ Step_create_investment_growth_chart
    \/ Return_create_investment_growth_chart
    \/ Call_analyze_retirement_readiness
    \/ Begin_analyze_mortgage_affordability
    \/ Step_analyze_mortgage_affordability
    \/ Return_analyze_mortgage_affordability
    \/ Call_calculate_loan_payment
    \/ Call_calculate_debt_to_income_ratio
    \/ Call_calculate_emergency_fund_ratio
    \/ Call_calculate_net_worth
    \/ Begin_calculate_portfolio_metrics
    \/ Step_calculate_portfolio_metrics
    \/ Return_calculate_portfolio_metrics
    \/ Call_get_stock_metrics
    \/ Call_generate_financial_adivice
    \/ Call_analyze_budget
    \/ Call_investement_advise
    \/ Begin_categorize_expenses
    \/ Step_categorize_expenses
    \/ Return_categorize_expenses

Spec == Init /\ [][Next]_vars

\* ----------------------------------------------- the persistence store ----
\* While the sessions use the store, call and result hold the last query (or
\* refused save) and what it returned or raised.
DbInit ==
    /\ pc = "done"
    /\ call = [fn |-> "none", session |-> NoSession, user |-> 0]
    /\ result = NoResult
    /\ local = NoLocals
    /\ StoreInit

\* Session s may start an operation: it has none under way.
CanStart(s) == conn[s].pc = "idle" /\ started < MaxOperations

\* save_expenses and its four siblings, up to the DELETE: the connection opens
\* its transaction, which takes the write lock of the database.
Delete_save(s, fn, u, d) ==
    /\ CanStart(s)
    /\ lock = NoSession
    /\ LET view == DeleteWhereUser(db, TableOf(fn), u)
       IN  /\ conn' = [conn EXCEPT ![s] =
                        [pc |-> "insert", fn |-> fn, user |-> u, data |-> d,
                         pending |-> d, view |-> view]]
           /\ db' = CommittedAfter(db, view, FALSE)
    /\ lock' = s
    /\ started' = started + 1
    /\ UNCHANGED <<clock, pc, call, result, local>>

\* The first statement of a save while another connection holds the write lock:
\* it waits, and when the wait runs out it raises "database is locked".
Locked_save(s) ==
    /\ CanStart(s)
    /\ lock \notin {NoSession, s}
    /\ call' = [fn |-> "save", session |-> s, user |-> 0]
    /\ result' = Raise("OperationalError")
    /\ started' = started + 1
    /\ UNCHANGED <<db, conn, lock, clock, pc, local>>

\* One pass of the loop of INSERTs.
Insert_save(s) ==
    /\ conn[s].pc = "insert"
    /\ conn[s].fn \in FullReplaceSaves
    /\ Len(conn[s].pending) > 0
    /\ LET view == InsertRow(conn[s].view, TableOf(conn[s].fn), conn[s].user,
                             ColumnsOf(conn[s].fn, Head(conn[s].pending)))
       IN  /\ conn' = [conn EXCEPT ![s].view = view, ![s].pending = Tail(@)]
           /\ db' = CommittedAfter(db, view, FALSE)
    /\ UNCHANGED <<lock, clock, started, pc, call, result, local>>

\* save_income up to its INSERT; the row's date is the reading of the clock,
\* which `elapsed` seconds have advanced since it was last read.
Insert_save_income(s, u, amount, elapsed) ==
    /\ CanStart(s)
    /\ lock = NoSession
    /\ clock + elapsed <= MaxClock
    /\ clock' = clock + elapsed
    /\ LET view == InsertRow(db, "income_data", u,
                             [amount |-> amount, date |-> clock'])
       IN  /\ conn' = [conn EXCEPT ![s] =
                        [pc |-> "insert", fn |-> "save_income", user |-> u,
                         data |-> <<amount>>, pending |-> <<>>, view |-> view]]
           /\ db' = CommittedAfter(db, view, FALSE)
    /\ lock' = s
    /\ started' = started + 1
    /\ UNCHANGED <<pc, call, result, local>>

\* conn.commit() and conn.close() after the last INSERT.
Commit_save(s) ==
    /\ conn[s].pc = "insert"
    /\ Len(conn[s].pending) = 0
    /\ db' = CommittedAfter(db, conn[s].view, TRUE)
    /\ conn' = [conn EXCEPT ![s] = Idle]
    /\ lock' = NoSession
    /\ UNCHANGED <<clock, started, pc, call, result, local>>

\* The process of the session dies inside a save: its transaction is never
\* committed and its lock is gone with it.
Crash_save(s) ==
    /\ conn[s].pc = "insert"
    /\ conn' = [conn EXCEPT ![s].pc = "crashed"]
    /\ db' = CommittedAfter(db, conn[s].view, FALSE)
    /\ lock' = NoSession
    /\ UNCHANGED <<clock, started, pc, call, result, local>>

\* One of the get_user_* functions: a query on the committed database.
Call_get(s, fn, u) ==
    /\ CanStart(s)
    /\ \E r \in GetResults(fn, db, u) : result' = Return(r)
    /\ call' = [fn |-> fn, session |-> s, user |-> u]
    /\ started' = started + 1
    /\ UNCHANGED <<db, conn, lock, clock, pc, local>>

DbNext ==
    \/ \E s \in Sessions, fn \in FullReplaceSaves, u \in Users :
          \E d \in SaveData(fn) : Delete_save(s, fn, u, d)
    \/ \E s \in Sessions : Locked_save(s)
    \/ \E s \in Sessions : Insert_save(s)
    \/ \E s \in Sessions, u \in Users :
          \E amount \in IncomeAmounts(u), elapsed \in {0, 1} :
              Insert_save_income(s, u, amount, elapsed)
    \/ \E s \in Sessions : Commit_save(s)
    \/ \E s \in Sessions : Crash_save(s)
    \/ \E s \in Sessions, fn \in Gets, u \in Users : Call_get(s, fn, u)

DbSpec == DbInit /\ [][DbNext]_vars

\* ------------------------------------------- advisory insight actions ----
\* save_ai_insight up to its INSERT; generated_at is the reading of the clock,
\* which `elapsed` seconds have advanced since it was last read.
Insert_save_ai_insight(s, u, insight, elapsed) ==
    /\ CanStart(s)
    /\ lock = NoSession
    /\ clock + elapsed <= MaxClock
    /\ clock' = clock + elapsed
    /\ LET view == InsertRow(db, "ai_insights", u,
                             [insight_type |-> insight.type,
                              content |-> StoredContent(insight.content),
                              generated_at |-> clock'])
       IN  /\ conn' = [conn EXCEPT ![s] =
                        [pc |-> "insert", fn |-> "save_ai_insight", user |-> u,
                         data |-> <<insight>>, pending |-> <<>>, view |-> view]]
           /\ db' = CommittedAfter(db, view, FALSE)
    /\ lock' = s
    /\ started' = started + 1
    /\ UNCHANGED <<pc, call, result, local>>

\* get_user_insights: a query on the committed database.
Call_get_user_insights(s, u, insight_type, limit) ==
    /\ CanStart(s)
    /\ \E r \in get_user_insights(db, u, insight_type, limit) : result' = Return(r)
    /\ call' = [fn |-> "get_user_insights", session |-> s, user |-> u,
                type |-> insight_type, limit |-> limit]
    /\ started' = started + 1
    /\ UNCHANGED <<db, conn, lock, clock, pc, local>>

\* The insight operations of both users, next to the other operations of the
\* store on the data of user 1.
InsightNext ==
    \/ \E s \in Sessions, u \in Users, insight \in InsightSaves, elapsed \in {0, 1} :
          Insert_save_ai_insight(s, u, insight, elapsed)
    \/ \E s \in Sessions, u \in Users, limit \in InsightLimits :
          \E t \in {NoType} \cup {i.type : i \in InsightSaves} :
              Call_get_user_insights(s, u, t, limit)
    \/ \E s \in Sessions, fn \in FullReplaceSaves :
          Delete_save(s, fn, 1, CHOOSE d \in SaveData(fn) : Len(d) > 0)
    \/ \E s \in Sessions : Insert_save(s)
    \/ \E s \in Sessions : Insert_save_income(s, 1, 100, 0)
    \/ \E s \in Sessions : Locked_save(s)
    \/ \E s \in Sessions : Commit_save(s)
    \/ \E s \in Sessions : Crash_save(s)

InsightSpec == DbInit /\ [][InsightNext]_vars

\* --------------------------------------------------------- user actions ----
\* get_or_create_user up to the fetch of its SELECT: the id is returned when the
\* row is there, otherwise the session goes on to create it.
Select_user(s, username, email) ==
    /\ CanStart(s)
    /\ started' = started + 1
    /\ IF UserIds(db, username) # {}
       THEN /\ result' = get_or_create_user(db, username, email).outcome
            /\ call' = [fn |-> "get_or_create_user", session |-> s,
                        username |-> username, email |-> email]
            /\ UNCHANGED conn
       ELSE /\ conn' = [conn EXCEPT ![s] =
                          [pc |-> "create", fn |-> "get_or_create_user", user |-> 0,
                           data |-> <<[username |-> username, email |-> email]>>,
                           pending |-> <<>>, view |-> <<>>]]
            /\ UNCHANGED <<call, result>>
    /\ UNCHANGED <<db, lock, clock, pc, local>>

\* The INSERT and its commit, on the database as it is by then.
Create_user(s) ==
    /\ conn[s].pc = "create"
    /\ LET created == CreateUser(db, conn[s].data[1].username, conn[s].data[1].email)
       IN  /\ db' = created.db
           /\ result' = created.outcome
    /\ call' = [fn |-> "get_or_create_user", session |-> s,
                username |-> conn[s].data[1].username, email |-> conn[s].data[1].email]
    /\ conn' = [conn EXCEPT ![s] = Idle]
    /\ UNCHANGED <<lock, clock, started, pc, local>>

UserNext ==
    \/ \E s \in Sessions, username \in Usernames, email \in Emails :
          Select_user(s, username, email)
    \/ \E s \in Sessions : Create_user(s)

UserSpec == DbInit /\ [][UserNext]_vars

\* --------------------------------------------------- application actions ----
\* In AppSpec local holds st.session_state of each session, and call the last
\* handler that ran. A handler is one run of the script; the runs of the
\* sessions are taken one at a time.
AppInit ==
    /\ pc = "done"
    /\ call = [fn |-> "none", session |-> NoSession]
    /\ result = NoResult
    /\ local = [s \in Sessions |-> DefaultSession]
    /\ db \in {EmptyDatabase, SeededDatabase}
    /\ conn = [s \in Sessions |-> Idle]
    /\ lock = NoSession
    /\ clock = 0
    /\ started = 0

\* The Login button with a username entered.
Login(s, username) ==
    /\ ~local[s].authenticated
    /\ started < MaxOperations
    /\ LET got     == get_or_create_user(db, username, Null)
           user_id == got.outcome.returned
       IN  /\ db' = got.db
           /\ \E income \in get_user_income(got.db, user_id),
                 goals \in get_user_financial_goals(got.db, user_id) :
                 local' = [local EXCEPT ![s] =
                    [authenticated |-> TRUE, user_id |-> user_id, username |-> username,
                     income |-> income,
                     expenses |-> get_user_expenses(got.db, user_id),
                     assets |-> get_user_assets(got.db, user_id),
                     liabilities |-> get_user_liabilities(got.db, user_id),
                     financial_goals |-> goals,
                     portfolio |-> get_user_portfolio(got.db, user_id)]]
    /\ call' = [fn |-> "Login", session |-> s]
    /\ result' = NoResult
    /\ started' = started + 1
    /\ UNCHANGED <<conn, lock, clock, pc>>

\* The Register button with a username entered; an empty Email field gives ''.
Register(s, username, email) ==
    /\ ~local[s].authenticated
    /\ started < MaxOperations
    /\ LET got == get_or_create_user(db, username, email)
       IN  /\ db' = got.db
           /\ IF IsRaise(got.outcome)
              THEN /\ result' = got.outcome
                   /\ UNCHANGED local
              ELSE /\ result' = NoResult
                   /\ local' = [local EXCEPT ![s].user_id = got.outcome.returned,
                                             ![s].username = username,
                                             ![s].authenticated = TRUE]
    /\ call' = [fn |-> "Register", session |-> s]
    /\ started' = started + 1
    /\ UNCHANGED <<conn, lock, clock, pc>>

\* The Save Data button.
Save_Data(s, elapsed) ==
    /\ local[s].authenticated
    /\ started < MaxOperations
    /\ clock + elapsed <= MaxClock
    /\ clock' = clock + elapsed
    /\ db' = SaveData_Button(db, local[s], clock')
    /\ call' = [fn |-> "Save Data", session |-> s]
    /\ result' = NoResult
    /\ started' = started + 1
    /\ UNCHANGED <<conn, lock, pc, local>>

\* The Budget Analyzer page rendered with the user's input: the session's
\* income and expenses are rebuilt from the inputs, and when there are expenses
\* and an income the advice of the gateway is saved as an insight.
Render_Budget_Analyzer(s, input, provider) ==
    /\ local[s].authenticated
    /\ started < MaxOperations
    /\ LET income           == InputValue(input.income, local[s].income)
           updated_expenses == UpdatedExpenses(local[s].expenses, input)
           budget_analysis  == analyze_budget(income, updated_expenses, provider).returned
       IN  /\ local' = [local EXCEPT ![s].income = income,
                                     ![s].expenses = updated_expenses]
           /\ IF DOMAIN updated_expenses # {} /\ income > 0 /\ local[s].user_id # 0
              THEN db' = InsertRow(db, "ai_insights", local[s].user_id,
                                   [insight_type |-> "budget_analysis",
                                    content |-> StoredContent(budget_analysis),
                                    generated_at |-> clock])
              ELSE db' = db
    /\ call' = [fn |-> "Budget Analyzer", session |-> s, input |-> input]
    /\ result' = NoResult
    /\ started' = started + 1
    /\ UNCHANGED <<conn, lock, clock, pc>>

AppNext ==
    \/ \E s \in Sessions, username \in Usernames : Login(s, username)
    \/ \E s \in Sessions, username \in Usernames, email \in Emails :
          Register(s, username, email)
    \/ \E s \in Sessions, elapsed \in {0, 1} : Save_Data(s, elapsed)
    \/ \E s \in Sessions, input \in BudgetInputs :
          \E provider \in {Provider(f, PlainText("Spend less on food")) :
                              f \in {"never", "generate_content"}} :
              Render_Budget_Analyzer(s, input, provider)

AppSpec == AppInit /\ [][AppNext]_vars

\* ------------------------------------------------------------ claims ----
Done(fn) == pc = "done" /\ call.fn = fn

Returned == "returned" \in DOMAIN result

\* A result of one of the two analyzers that carries the analysis, not an error.
Succeeded == Returned /\ "error" \notin DOMAIN result.returned

Last(seq) == seq[Len(seq)]

\* The rounding allowance of a result that took `steps` rounded steps: one
\* currency unit a step.
Tolerance(steps) == steps

\* C1: analyze_mortgage_affordability reports max_housing_payment as the smaller
\* of 0.28 x income/12 and 0.36 x income/12 - debt, and every entry of
\* price_ranges is flagged affordable exactly when its monthly_payment is at most
\* the reported max_housing_payment.
C1_MaxHousingPaymentAndAffordableFlag ==
    (Done("analyze_mortgage_affordability") /\ Succeeded) =>
        LET r     == result.returned
            m     == RoundDiv(call.args.income.num, 12)
            front == MulFactor(m, (28 * Scale) \div 100)
            back  == MulFactor(m, (36 * Scale) \div 100) - call.args.debt
        IN  /\ r.max_housing_payment <= front
            /\ r.max_housing_payment <= back
            /\ r.max_housing_payment \in {front, back}
            /\ \A i \in DOMAIN r.price_ranges :
                  r.price_ranges[i].affordable
                      <=> (r.price_ranges[i].monthly_payment <= r.max_housing_payment)

\* C1 witness: the back-end limit governs, and the sweep holds both an affordable
\* and an unaffordable price.
C1_Witness ==
    /\ Done("analyze_mortgage_affordability") /\ Succeeded
    /\ call.args.debt > 0
    /\ result.returned.max_housing_payment
          < MulFactor(RoundDiv(call.args.income.num, 12), (28 * Scale) \div 100)
    /\ \E i, j \in DOMAIN result.returned.price_ranges :
          /\ result.returned.price_ranges[i].affordable
          /\ ~result.returned.price_ranges[j].affordable

\* The home prices of the entries flagged affordable.
AffordablePrices(price_ranges) ==
    {price_ranges[i].home_price : i \in {j \in DOMAIN price_ranges : price_ranges[j].affordable}}

\* C2: in every successful result max_affordable_price is the highest home_price
\* among the entries flagged affordable, and 0 when none is (price_ranges empty
\* or max_housing_payment negative included).
C2_MaxAffordablePrice ==
    (Done("analyze_mortgage_affordability") /\ Succeeded) =>
        LET r   == result.returned
            aff == AffordablePrices(r.price_ranges)
        IN  IF aff = {} THEN r.max_affordable_price = 0
            ELSE /\ r.max_affordable_price \in aff
                 /\ \A p \in aff : p <= r.max_affordable_price

\* C2 witness: several prices are affordable and a higher one is not.
C2_Witness ==
    /\ Done("analyze_mortgage_affordability") /\ Succeeded
    /\ Cardinality(AffordablePrices(result.returned.price_ranges)) >= 2
    /\ result.returned.max_affordable_price > 0
    /\ \E i \in DOMAIN result.returned.price_ranges :
          /\ ~result.returned.price_ranges[i].affordable
          /\ result.returned.price_ranges[i].home_price
                > result.returned.max_affordable_price

\* C3: price_ranges holds, in ascending price order, exactly one entry for each
\* sampled price 50,000 x k, k = 1..15, whose loan amount (price - down payment)
\* is positive, and none for a sampled price whose loan amount is zero or negative.
C3_PriceRangesEnumerateSampledPrices ==
    (Done("analyze_mortgage_affordability") /\ Succeeded) =>
        LET pr == result.returned.price_ranges
        IN  /\ \A k \in 1..15 :
                  (50000 * k - call.args.down_payment > 0)
                      <=> (\E i \in DOMAIN pr : pr[i].home_price = 50000 * k)
            /\ \A i \in DOMAIN pr : \E k \in 1..15 : pr[i].home_price = 50000 * k
            /\ \A i, j \in DOMAIN pr : i < j => pr[i].home_price < pr[j].home_price

\* C3 witness: the down payment equals a sampled price, so that price (zero loan)
\* and the ones below it are left out and the others are listed.
C3_Witness ==
    /\ Done("analyze_mortgage_affordability") /\ Succeeded
    /\ call.args.down_payment = 200000
    /\ Len(result.returned.price_ranges) = 11
    /\ result.returned.price_ranges[1].home_price = 250000

\* C4 (as claimed): for every principal > 0, annual_rate >= 0 and years > 0,
\* generate_amortization_schedule returns exactly years x 12 rows whose month
\* fields are 1, 2, ..., years x 12 in that order.
C4_ScheduleHasAllMonths ==
    (/\ Done("generate_amortization_schedule")
     /\ call.principal > 0 /\ call.annual_rate >= 0 /\ call.years > 0) =>
        /\ Returned
        /\ Len(result.returned) = call.years * 12
        /\ \A i \in DOMAIN result.returned : result.returned[i].month = i

RECURSIVE SumPrincipal(_, _)
SumPrincipal(schedule, n) ==
    IF n = 0 THEN 0 ELSE schedule[n].principal + SumPrincipal(schedule, n - 1)

\* C5 (as claimed): for every principal > 0, annual_rate >= 0 and years > 0 the
\* last row has remaining_balance 0 and the principal portions sum to the
\* principal: exactly when the rate is 0 and the division is exact, within the
\* rounding allowance otherwise.
C5_ScheduleRepaysThePrincipal ==
    (/\ Done("generate_amortization_schedule")
     /\ call.principal > 0 /\ call.annual_rate >= 0 /\ call.years > 0) =>
        LET n   == call.years * 12
            tol == IF call.annual_rate = 0 /\ call.principal % n = 0
                   THEN 0 ELSE Tolerance(n)
        IN  /\ Returned
            /\ Len(result.returned) > 0
            /\ Last(result.returned).remaining_balance <= tol
            /\ Abs(SumPrincipal(result.returned, Len(result.returned)) - call.principal)
                  <= tol

\* C6: every row emitted by generate_amortization_schedule has
\* remaining_balance >= 0, whatever the inputs, also when the payments drive the
\* running balance below zero.
C6_RemainingBalanceNeverNegative ==
    /\ (call.fn = "generate_amortization_schedule" /\ "schedule" \in DOMAIN local) =>
          \A i \in DOMAIN local.schedule : local.schedule[i].remaining_balance >= 0
    /\ (Done("generate_amortization_schedule") /\ Returned) =>
          \A i \in DOMAIN result.returned : result.returned[i].remaining_balance >= 0

\* C6 witness: a loan with a positive principal whose running balance ended
\* below zero, the last row showing 0.
C6_Witness ==
    /\ Done("generate_amortization_schedule") /\ Returned
    /\ call.principal > 0
    /\ local.remaining_balance < 0
    /\ Last(result.returned).remaining_balance = 0

\* C7: for the same initial investment, monthly contribution and annual rate,
\* the year-N point of the simulation in create_investment_growth_chart has the
\* value of calculate_investment_returns' final_amount for N years (within the
\* rounding allowance) and its total_contributions, for every N >= 0, for the
\* rates 0 and 0.07.
C7_SimulationMatchesClosedForm ==
    (/\ Done("create_investment_growth_chart")
     /\ call.rate_of_return \in {0, (7 * Scale) \div 100}) =>
        /\ Len(result.returned) = call.years + 1
        /\ \A i \in DOMAIN result.returned :
              LET point  == result.returned[i]
                  closed == calculate_investment_returns(call.initial_investment,
                                call.monthly_contribution, point.year,
                                call.rate_of_return)
              IN  /\ Abs(point.value - closed.final_amount) <= Tolerance(12 * point.year)
                  /\ point.contributions = closed.total_contributions

\* C7 witness: a projection at 7% over at least two years with contributions,
\* ended above what was paid in.
C7_Witness ==
    /\ Done("create_investment_growth_chart")
    /\ call.rate_of_return = (7 * Scale) \div 100
    /\ call.years >= 2
    /\ call.monthly_contribution > 0
    /\ call.initial_investment > 0
    /\ Last(result.returned).value > Last(result.returned).contributions

\* The projection sequence as far as it is built.
ProjectionHolds(data) ==
    /\ \A i \in DOMAIN data :
          /\ data[i].year = i - 1
          /\ data[i].earnings = data[i].value - data[i].contributions
    /\ data[1].value = call.initial_investment
    /\ data[1].contributions = call.initial_investment
    /\ data[1].earnings = 0
    /\ call.monthly_contribution >= 0 =>
          \A i \in DOMAIN data :
              i > 1 => data[i - 1].contributions <= data[i].contributions

\* C8: the projection sequence for N years has the N+1 points year = 0..N in
\* order; every point has earnings = value - contributions, the year-0 point
\* value = contributions = initial_investment and earnings = 0; contributions
\* never decrease from a point to the next when monthly_contribution >= 0.
C8_ProjectionSequence ==
    /\ (call.fn = "create_investment_growth_chart" /\ pc = "loop") =>
          ProjectionHolds(local.data)
    /\ Done("create_investment_growth_chart") =>
          /\ Len(result.returned) = call.years + 1
          /\ ProjectionHolds(result.returned)

\* C8 witness: a finished projection of at least two years from a positive
\* initial investment, with contributions and earnings.
C8_Witness ==
    /\ Done("create_investment_growth_chart")
    /\ call.years >= 2
    /\ call.initial_investment > 0
    /\ call.monthly_contribution > 0
    /\ Last(result.returned).earnings > 0
    /\ Last(result.returned).year = call.years

\* C9: for every income >= 0 and every mapping of non-negative amounts,
\* calculate_budget_summary returns total_expenses = the sum of the amounts,
\* remaining = income - total_expenses and savings_rate = remaining/income x 100
\* when income > 0, 0 when income = 0; for the empty mapping remaining = income
\* and savings_rate is 100 if income > 0, else 0.
C9_BudgetSummary ==
    Done("calculate_budget_summary") =>
        LET r     == result.returned
            total == SumValues(call.expenses)
        IN  /\ r.total_expenses = total
            /\ r.remaining = call.income - total
            /\ r.savings_rate =
                  IF call.income > 0
                  THEN RoundMulDiv(call.income - total, Scale, call.income) * 100
                  ELSE 0
            /\ DOMAIN call.expenses = {} =>
                  /\ r.total_expenses = 0
                  /\ r.remaining = call.income
                  /\ r.savings_rate = IF call.income > 0 THEN 100 * Scale ELSE 0

\* C9 witness: a summary of two expense categories that leaves part of a
\* positive income.
C9_Witness ==
    /\ Done("calculate_budget_summary")
    /\ Cardinality(DOMAIN call.expenses) = 2
    /\ call.income > 0
    /\ result.returned.savings_rate > 0
    /\ result.returned.savings_rate < 100 * Scale

\* The calls whose computation fails: a non-numeric argument, a division by
\* zero in the mortgage payment of a price with a positive loan (no payments,
\* or a positive rate that 1 + rate/12 absorbs), 0 raised to a negative power.
ComputationFails ==
    \/ /\ call.fn = "analyze_mortgage_affordability"
       /\ \/ ~IsNumber(call.args.income)
          \/ /\ call.args.down_payment < 15 * 50000
             /\ \/ call.args.term_years = 0
                \/ /\ call.args.interest_rate # 0
                   /\ RoundDiv(call.args.interest_rate, 12) = 0
    \/ /\ call.fn = "analyze_retirement_readiness"
       /\ \/ ~IsNumber(call.args.current_savings)
          \/ /\ call.args.expected_return = -Scale
             /\ call.args.retirement_age < call.args.current_age

\* C10: analyze_retirement_readiness and analyze_mortgage_affordability never let
\* an exception reach the caller; whenever the computation fails the call returns
\* a result that carries an error message and none of the analysis fields.
C10_FailuresAreReturnedAsErrors ==
    (pc = "done" /\ call.fn \in {"analyze_retirement_readiness",
                                 "analyze_mortgage_affordability"}) =>
        /\ Returned
        /\ ComputationFails <=> DOMAIN result.returned = {"error"}

\* C10 witness: a mortgage analysis with term_years = 0 and a positive loan
\* amount, returned as an error.
C10_Witness ==
    /\ Done("analyze_mortgage_affordability")
    /\ IsNumber(call.args.income)
    /\ call.args.term_years = 0
    /\ call.args.down_payment = 0
    /\ Returned
    /\ "error" \in DOMAIN result.returned

\* C11: in every successful result of analyze_retirement_readiness,
\* sustainable_annual_income is 4% of projected_savings and on_track is true
\* exactly when sustainable_annual_income >= desired_retirement_income.
C11_FourPercentRuleAndOnTrack ==
    (Done("analyze_retirement_readiness") /\ Succeeded) =>
        LET r == result.returned
        IN  /\ r.sustainable_annual_income = RoundMulDiv(r.projected_savings, 4, 100)
            /\ r.on_track <=>
                  (r.sustainable_annual_income >= call.args.desired_retirement_income)

\* C11 witness: a successful analysis whose sustainable income, a positive 4% of
\* the projected savings, reaches a positive desired income.
C11_Witness ==
    /\ Done("analyze_retirement_readiness") /\ Succeeded
    /\ call.args.desired_retirement_income > 0
    /\ result.returned.projected_savings > 0
    /\ result.returned.sustainable_annual_income > 0
    /\ result.returned.on_track

\* C12: analyze_retirement_readiness returns income_gap =
\* desired_retirement_income - sustainable_annual_income and
\* income_gap_percentage = income_gap / desired_retirement_income x 100 when
\* desired_retirement_income > 0; when desired_retirement_income = 0 the result
\* is successful and its income_gap_percentage is 0.
C12_IncomeGapAndPercentage ==
    Done("analyze_retirement_readiness") =>
        LET desired == call.args.desired_retirement_income
        IN  /\ Succeeded =>
                  /\ result.returned.income_gap
                        = desired - result.returned.sustainable_annual_income
                  /\ result.returned.income_gap_percentage =
                        IF desired > 0
                        THEN RoundMulDiv(result.returned.income_gap, Scale, desired) * 100
                        ELSE 0
            /\ (desired = 0 /\ ~ComputationFails) =>
                  /\ Succeeded
                  /\ result.returned.income_gap_percentage = 0

\* C12 witness: no income is desired while the savings sustain one, so the gap is
\* negative and the percentage is reported as 0.
C12_Witness ==
    /\ Done("analyze_retirement_readiness") /\ Succeeded
    /\ call.args.desired_retirement_income = 0
    /\ result.returned.income_gap < 0
    /\ result.returned.income_gap_percentage = 0

\* C13: calculate_debt_to_income_ratio returns None for every
\* monthly_debt_payments whenever monthly_income <= 0 and the quotient
\* debt / income otherwise; calculate_emergency_fund_ratio does the same with
\* respect to monthly_expenses <= 0; neither raises on a non-positive
\* denominator.
C13_RatiosUndefinedOnNonPositiveDenominator ==
    (pc = "done" /\ call.fn \in {"calculate_debt_to_income_ratio",
                                 "calculate_emergency_fund_ratio"}) =>
        /\ Returned
        /\ IF call.denominator <= 0
           THEN IsNone(result.returned)
           ELSE /\ IsNumber(result.returned)
                /\ result.returned.num
                      = RoundMulDiv(call.numerator, Scale, call.denominator)

\* C13 witness: a debt against a negative income, reported as None.
C13_Witness ==
    /\ Done("calculate_debt_to_income_ratio")
    /\ call.denominator < 0
    /\ call.numerator > 0
    /\ Returned
    /\ IsNone(result.returned)

\* C14: calculate_loan_payment(principal, 0, years) returns principal divided by
\* years x 12 for every principal and every years > 0 - the nearest
\* representable value, and the exact quotient when the division is exact -
\* and does not raise.
C14_ZeroRatePayment ==
    (Done("calculate_loan_payment") /\ call.annual_rate = 0 /\ call.years > 0) =>
        LET n == call.years * 12
        IN  /\ Returned
            /\ 2 * Abs(result.returned * n - call.principal) <= n
            /\ call.principal % n = 0 => result.returned * n = call.principal

\* C14 witness: a zero-rate loan of 100000 over two years, paid in 24 parts.
C14_Witness ==
    /\ Done("calculate_loan_payment")
    /\ call.annual_rate = 0
    /\ call.years = 2
    /\ call.principal = 100000
    /\ Returned
    /\ result.returned = 4167

\* C15: calculate_net_worth returns (net_worth, assets_total, liabilities_total)
\* where each total is the sum of the values of its mapping, None or an empty
\* mapping counts as 0, and net_worth = assets_total - liabilities_total; for
\* assets {cash: 1000} and liabilities {loan: 400} the result is (600, 1000, 400).
C15_NetWorth ==
    Done("calculate_net_worth") =>
        LET r == result.returned
            TotalOf(m) == IF IsNone(m) \/ DOMAIN m = {} THEN 0 ELSE SumValues(m)
        IN  /\ Len(r) = 3
            /\ r[2] = TotalOf(call.assets)
            /\ r[3] = TotalOf(call.liabilities)
            /\ r[1] = r[2] - r[3]
            /\ (DOMAIN call.assets = {"cash"} /\ DOMAIN call.liabilities = {"loan"}) =>
                  r = <<600, 1000, 400>>

\* C15 witness: two assets against no liabilities mapping at all.
C15_Witness ==
    /\ Done("calculate_net_worth")
    /\ IsNone(call.liabilities)
    /\ DOMAIN call.assets = {"cash", "house"}
    /\ result.returned = <<251000, 251000, 0>>

\* The holdings whose price the gateway delivers, in the order of the list.
RECURSIVE PricedHoldings(_, _)
PricedHoldings(holdings, market) ==
    IF Len(holdings) = 0 THEN <<>>
    ELSE LET rest == PricedHoldings(Tail(holdings), market)
             hist == market[Head(holdings).ticker]
         IN  IF IsRaise(hist) \/ Len(hist.rows) = 0 THEN rest
             ELSE <<[holding |-> Head(holdings), price |-> Last(hist.rows).Close]>> \o rest

RECURSIVE PricedValue(_)
PricedValue(priced) ==
    IF Len(priced) = 0 THEN 0
    ELSE Head(priced).holding.shares * Head(priced).price + PricedValue(Tail(priced))

RECURSIVE PricedCost(_)
PricedCost(priced) ==
    IF Len(priced) = 0 THEN 0
    ELSE Head(priced).holding.shares * Head(priced).holding.cost_basis
         + PricedCost(Tail(priced))

\* The gateway fails outright for one of the holdings of the call.
SomeFetchFails ==
    \E i \in DOMAIN call.holdings : IsRaise(call.market[call.holdings[i].ticker])

WindowReturnAsClaimed(rows, k) ==
    IF Len(rows) < k THEN None
    ELSE Num((RoundMulDiv(rows[Len(rows)].Close, Scale, rows[Len(rows) - k + 1].Close)
              - Scale) * 100)

\* C17 (as claimed): for each window offset k in {21, 63, 252}, get_stock_metrics
\* reports the window's return as None exactly when the fetched history has
\* fewer than k trading days, and otherwise as (latest close / close k
\* trading-day positions back from the end of the series - 1) x 100.
C17_TrailingReturnsUseTradingDayOffsets ==
    (Done("get_stock_metrics") /\ Succeeded) =>
        LET rows == call.hist.rows
            r    == result.returned.returns
        IN  /\ r["1mo"] = WindowReturnAsClaimed(rows, 21)
            /\ r["3mo"] = WindowReturnAsClaimed(rows, 63)
            /\ r["1yr"] = WindowReturnAsClaimed(rows, 252)

\* The part of C17 that the code meets: the one-month and three-month windows
\* at every length, the one-year window up to 252 rows.
C17_HoldsUpTo252Rows ==
    (Done("get_stock_metrics") /\ Succeeded) =>
        LET rows == call.hist.rows
            r    == result.returned.returns
        IN  /\ r["1mo"] = WindowReturnAsClaimed(rows, 21)
            /\ r["3mo"] = WindowReturnAsClaimed(rows, 63)
            /\ Len(rows) <= 252 => r["1yr"] = WindowReturnAsClaimed(rows, 252)

\* The columns of the rows, without id and user_id, in the order of the table.
StoredEntries(rows) == [i \in DOMAIN rows |-> SelectedColumns(rows[i])]

\* Every key that an entry of the data d gives has its value in the stored or
\* returned entry at the same place.
SameEntries(entries, d) ==
    /\ Len(entries) = Len(d)
    /\ \A i \in DOMAIN d : \A k \in DOMAIN d[i] : entries[i][k] = d[i][k]

\* The same, the entries taken in some order.
SameEntriesInSomeOrder(entries, d) ==
    /\ Len(entries) = Len(d)
    /\ \E p \in [DOMAIN d -> DOMAIN d] :
          /\ \A i, j \in DOMAIN d : i # j => p[i] # p[j]
          /\ \A i \in DOMAIN d : \A k \in DOMAIN d[i] : entries[p[i]][k] = d[i][k]

\* The dict whose items are d.
DictOfItems(d) ==
    [k \in {d[i].key : i \in DOMAIN d} |->
        d[CHOOSE i \in DOMAIN d : d[i].key = k].value]

\* What the get function that matches the save function fn returns for user u
\* on the database holds the entries of d.
GetReturnsEntries(fn, database, u, d) ==
    CASE fn = "save_expenses" -> get_user_expenses(database, u) = DictOfItems(d)
      [] fn = "save_assets" -> get_user_assets(database, u) = DictOfItems(d)
      [] fn = "save_liabilities" -> get_user_liabilities(database, u) = DictOfItems(d)
      [] fn = "save_financial_goals" ->
            \A goals \in get_user_financial_goals(database, u) :
                SameEntriesInSomeOrder(goals, d)
      [] OTHER -> SameEntries(get_user_portfolio(database, u), d)

\* The columns that hold the key and the value of an item of a dict category.
ItemColumns(fn) ==
    CASE fn = "save_expenses" -> <<"category", "amount">>
      [] fn = "save_assets" -> <<"name", "value">>
      [] OTHER -> <<"name", "amount">>

\* The rows are the entries of d, one row per entry, in the order of d.
RowsHoldData(fn, rows, d) ==
    IF fn \in {"save_financial_goals", "save_investment_portfolio"}
    THEN SameEntries(StoredEntries(rows), d)
    ELSE /\ Len(rows) = Len(d)
         /\ \A i \in DOMAIN d :
               /\ rows[i][ItemColumns(fn)[1]] = d[i].key
               /\ rows[i][ItemColumns(fn)[2]] = d[i].value

\* Session s completes a full-replace save in this step.
CompletesSave(s) ==
    /\ conn[s].pc = "insert"
    /\ conn[s].fn \in FullReplaceSaves
    /\ conn'[s].pc = "idle"

\* C18: when save_expenses, save_assets, save_liabilities, save_financial_goals
\* or save_investment_portfolio completes for user u with data d, the rows
\* stored for u in that category are exactly the entries of d (earlier rows of u
\* are gone, nothing is merged), the matching get_user_* call returns the
\* entries of d, and the rows of every other user and of every other category
\* are unchanged.
C18_SaveReplacesTheUsersRows ==
    [][\A s \in Sessions :
        CompletesSave(s) =>
            LET fn == conn[s].fn
                t  == TableOf(fn)
                u  == conn[s].user
                d  == conn[s].data
            IN  /\ RowsHoldData(fn, RowsOfUser(db', t, u), d)
                /\ GetReturnsEntries(fn, db', u, d)
                /\ \A t2 \in Tables, u2 \in Users :
                      (t2 # t \/ u2 # u) =>
                          RowsOfUser(db', t2, u2) = RowsOfUser(db, t2, u2)]_vars

\* C18 witness: user 1 saved two expenses and then one, which is all that is
\* stored for user 1 now, while user 2 has rows in the same table.
C18_Witness ==
    /\ \A s \in Sessions : conn[s].pc = "idle"
    /\ Len(RowsOfUser(db, "expenses", 1)) = 1
    /\ RowsOfUser(db, "expenses", 1)[1].id = db["expenses"].seq
    /\ RowsOfUser(db, "expenses", 1)[1].amount = 1200
    /\ Len(RowsOfUser(db, "expenses", 2)) = 2
    /\ db["expenses"].seq = 5

\* C19 (as claimed): a full-replace save is not atomic - after a crash that
\* follows its DELETE and some but not all of its INSERTs, the store holds for
\* the user the partial set of rows inserted so far, neither the complete old
\* snapshot nor the complete new one.
C19_CrashLeavesPartialRows ==
    \A s \in Sessions :
        (/\ conn[s].pc = "crashed"
         /\ conn[s].fn \in FullReplaceSaves
         /\ Len(conn[s].pending) > 0
         /\ Len(conn[s].pending) < Len(conn[s].data)) =>
            RowsHoldData(conn[s].fn,
                         RowsOfUser(db, TableOf(conn[s].fn), conn[s].user),
                         SubSeq(conn[s].data, 1,
                                Len(conn[s].data) - Len(conn[s].pending)))

\* C19 (amended): a full-replace save is atomic - the rows stored for a user in
\* a category change only in the step that commits a save for that user and
\* category, and then to the complete data of that save; a crash before the
\* commit and a concurrent writer, who is locked out until the commit, leave
\* them as they were.
C19_SaveIsAtomic ==
    [][\A t \in Tables \ {"income_data"}, u \in Users :
        RowsOfUser(db', t, u) # RowsOfUser(db, t, u) =>
            \E s \in Sessions :
                /\ CompletesSave(s)
                /\ TableOf(conn[s].fn) = t
                /\ conn[s].user = u
                /\ RowsHoldData(conn[s].fn, RowsOfUser(db', t, u), conn[s].data)]_vars

\* C19 witness: a save of two expenses for user 1 crashed between its two
\* INSERTs, and the store still holds the one expense user 1 had before.
C19_Witness ==
    \E s \in Sessions :
        /\ conn[s].pc = "crashed"
        /\ conn[s].fn = "save_expenses"
        /\ conn[s].user = 1
        /\ Len(conn[s].data) = 2
        /\ Len(conn[s].pending) = 1
        /\ Len(RowsOfUser(db, "expenses", 1)) = 1
        /\ RowsOfUser(db, "expenses", 1)[1].amount = 1200

\* The amount of the save_income of the user that completed last: income rows
\* are never deleted and are stored in the order in which their saves ran.
LatestSavedIncome(database, u) ==
    LET rows == RowsOfUser(database, "income_data", u)
    IN  IF Len(rows) = 0 THEN 0 ELSE rows[Len(rows)].amount

\* C20 (as claimed): after any sequence of save_income calls for user u,
\* get_user_income(u) returns the amount of the most recently completed
\* save_income(u, .), also when two saves fall within the same timestamp; it
\* returns 0 when u has no income row, and never another user's amount.
C20_IncomeIsLatestSnapshot ==
    [][(/\ started' = started + 1
        /\ conn' = conn
        /\ call'.fn = "get_user_income") =>
            result'.returned = LatestSavedIncome(db, call'.user)]_vars

\* The part of C20 that the code meets: the amount returned is one that the
\* user saved at the latest timestamp, 0 when the user has no income row.
C20_IncomeIsOfLatestTimestamp ==
    [][(/\ started' = started + 1
        /\ conn' = conn
        /\ call'.fn = "get_user_income") =>
            LET rows == RowsOfUser(db, "income_data", call'.user)
            IN  IF Len(rows) = 0 THEN result'.returned = 0
                ELSE \E i \in DOMAIN rows :
                        /\ rows[i].amount = result'.returned
                        /\ rows[i].date = rows[Len(rows)].date]_vars

\* Session s completes a save_ai_insight in this step.
CompletesInsight(s) ==
    /\ conn[s].pc = "insert"
    /\ conn[s].fn = "save_ai_insight"
    /\ conn'[s].pc = "idle"

\* A get_user_insights call is made in this step.
GetsInsights ==
    /\ started' = started + 1
    /\ conn' = conn
    /\ call'.fn = "get_user_insights"

\* The newest `limit` of the rows, which are in the order of their saves, as
\* the entries returned for them, the newest first.
NewestFirst(rows, limit) ==
    [i \in 1..Min(limit, Len(rows)) |-> InsightOfRow(rows[Len(rows) + 1 - i])]

\* No step deletes or changes an insight row, and the only step that adds rows
\* is the completion of a save_ai_insight, which adds one row of its user and
\* insight_type.
InsightsAreOnlyAppended ==
    LET old == db["ai_insights"].rows
        new == db'["ai_insights"].rows
    IN  /\ Len(new) >= Len(old)
        /\ \A i \in DOMAIN old : new[i] = old[i]
        /\ \A s \in Sessions :
              CompletesInsight(s) =>
                  /\ Len(new) = Len(old) + 1
                  /\ new[Len(new)].user_id = conn[s].user
                  /\ new[Len(new)].insight_type = conn[s].data[1].type
        /\ Len(new) # Len(old) => \E s \in Sessions : CompletesInsight(s)

\* C21 (as claimed): insights form an append-only log - no operation of the
\* store deletes or changes an existing insight row, each save_ai_insight adds
\* exactly one row for its (user, insight_type) - and get_user_insights(u, type,
\* limit) returns at most limit insights of user u, only of that type when a
\* type is given, the newest first.
C21_InsightsAreAnAppendOnlyLog ==
    [][/\ InsightsAreOnlyAppended
       /\ GetsInsights =>
            result'.returned =
                NewestFirst(InsightRowsOf(db, call'.user, call'.type), call'.limit)]_vars

\* The part of C21 that the code meets: the log is append-only, and what
\* get_user_insights returns are at most limit insights of the user and the
\* type, none older by its timestamp than one that follows or is left out.
C21_InsightsNewestTimestampFirst ==
    [][/\ InsightsAreOnlyAppended
       /\ GetsInsights =>
            LET got  == result'.returned
                rows == InsightRowsOf(db, call'.user, call'.type)
            IN  /\ Len(got) = Min(call'.limit, Len(rows))
                /\ \A i \in DOMAIN got :
                      /\ call'.type # NoType => got[i].type = call'.type
                      /\ i < Len(got) => got[i].generated_at >= got[i + 1].generated_at
                /\ \E f \in [DOMAIN got -> DOMAIN rows] :
                      /\ \A i, j \in DOMAIN got : i # j => f[i] # f[j]
                      /\ \A i \in DOMAIN got : got[i] = InsightOfRow(rows[f[i]])
                      /\ \A k \in DOMAIN rows, i \in DOMAIN got :
                            (\A j \in DOMAIN got : f[j] # k) =>
                                rows[k].generated_at <= got[i].generated_at]_vars

\* C28 (as claimed): insight content round-trips through the store - when
\* save_ai_insight(u, t, c) completes, the entry that get_user_insights returns
\* for its row has content equal to c, a string coming back as the same string
\* (also when the string is valid JSON text) and a non-string value as an equal
\* structure.
C28_InsightContentRoundTrips ==
    [][\A s \in Sessions :
        CompletesInsight(s) =>
            LET rows == db'["ai_insights"].rows
                row  == rows[Len(rows)]
            IN  /\ InsightOfRow(row).content = conn[s].data[1].content
                /\ \A got \in get_user_insights(db', conn[s].user, NoType, Len(rows)) :
                      \E i \in DOMAIN got : got[i] = InsightOfRow(row)]_vars

\* The part of C28 that the code meets: a value that is not a string, and a
\* string that is not valid JSON text, come back equal to what was saved.
C28_RoundTripUnlessStringIsJson ==
    [][\A s \in Sessions :
        CompletesInsight(s) =>
            LET rows == db'["ai_insights"].rows
                c    == conn[s].data[1].content
            IN  ("pystr" \notin DOMAIN c \/ "json" \notin DOMAIN c.pystr) =>
                    InsightOfRow(rows[Len(rows)]).content = c]_vars

GatewayCalls == {"generate_financial_adivice", "analyze_budget", "investement_advise"}

\* C22 (as claimed): every Advisory Gateway call returns a string in all cases;
\* when the provider fails at any step of the call, a message sent to the
\* model or the reading of its reply, the failure comes back as an error string
\* and no exception reaches the caller.
C22_GatewayAlwaysReturnsAString ==
    (pc = "done" /\ call.fn \in GatewayCalls) =>
        /\ ~IsRaise(result)
        /\ "pystr" \in DOMAIN result.returned

\* The part of C22 that the code meets: analyze_budget and investement_advise
\* return a string whatever the provider does, and generate_financial_adivice
\* does when no message fails to be sent.
C22_StringUnlessSendFails ==
    (/\ pc = "done"
     /\ call.fn \in GatewayCalls
     /\ call.provider.fails_at \in {"never", "last.text", "generate_content",
                                    "response.text"}) =>
        /\ ~IsRaise(result)
        /\ "pystr" \in DOMAIN result.returned
        /\ call.provider.fails_at # "never" =>
              result.returned = ErrorString("ProviderError")

\* C23: for every entry of price_ranges the PMI component is
\* loan_amount x pmi_rate / 12 when down_payment / home_price < 0.2 and 0
\* otherwise (a down payment of exactly 20% carries no PMI), and monthly_payment
\* is the sum of the four components mortgage + property_tax + insurance + pmi.
C23_PmiComponentAndTotal ==
    (Done("analyze_mortgage_affordability") /\ Succeeded) =>
        \A i \in DOMAIN result.returned.price_ranges :
            LET e    == result.returned.price_ranges[i]
                loan == e.home_price - call.args.down_payment
            IN  /\ e.details.pmi =
                      IF 5 * call.args.down_payment < e.home_price
                      THEN RoundMulDiv(loan, call.args.pmi_rate, 12 * Scale)
                      ELSE 0
                /\ e.monthly_payment =
                      e.details.mortgage + e.details.property_tax
                          + e.details.insurance + e.details.pmi

\* C23 witness: the down payment is exactly 20% of the first listed price, which
\* carries no PMI, and less than 20% of the next, which does.
C23_Witness ==
    /\ Done("analyze_mortgage_affordability") /\ Succeeded
    /\ Len(result.returned.price_ranges) >= 2
    /\ 5 * call.args.down_payment = result.returned.price_ranges[1].home_price
    /\ result.returned.price_ranges[1].details.pmi = 0
    /\ result.returned.price_ranges[2].details.pmi > 0

\* C29: for interest_rate >= 0, term_years > 0, property_tax_rate >= 0 and
\* pmi_rate >= 0, monthly_payment strictly increases along price_ranges, so the
\* affordable entries form a prefix: every listed price below
\* max_affordable_price is flagged affordable and every listed price above it
\* is not.
C29_PaymentIncreasesAndAffordableIsAPrefix ==
    (/\ Done("analyze_mortgage_affordability") /\ Succeeded
     /\ call.args.interest_rate >= 0 /\ call.args.term_years > 0
     /\ call.args.property_tax_rate >= 0 /\ call.args.pmi_rate >= 0) =>
        LET r  == result.returned
            pr == r.price_ranges
        IN  /\ \A i, j \in DOMAIN pr :
                  i < j => pr[i].monthly_payment < pr[j].monthly_payment
            /\ \A i \in DOMAIN pr :
                  /\ pr[i].home_price < r.max_affordable_price => pr[i].affordable
                  /\ pr[i].home_price > r.max_affordable_price => ~pr[i].affordable

\* C29 witness: a sweep in which PMI sets in part of the way, the lower prices
\* are affordable and the higher ones are not.
C29_Witness ==
    /\ Done("analyze_mortgage_affordability") /\ Succeeded
    /\ call.args.term_years > 0
    /\ \E i, j, k \in DOMAIN result.returned.price_ranges :
          /\ i < j /\ j < k
          /\ result.returned.price_ranges[i].details.pmi = 0
          /\ result.returned.price_ranges[j].details.pmi > 0
          /\ result.returned.price_ranges[j].affordable
          /\ ~result.returned.price_ranges[k].affordable

\* The first category in declaration order one of whose keywords is a substring
\* of the description, 'Other' when there is none.
FirstMatchingCategory(description) ==
    LET matching == {i \in DOMAIN CategoryKeywords :
                        \E k \in DOMAIN CategoryKeywords[i].keywords :
                            Occurs(CategoryKeywords[i].keywords[k], description)}
    IN  IF matching = {} THEN "Other"
        ELSE CategoryKeywords[CHOOSE i \in matching : \A j \in matching : i <= j].category

\* The sum of |amount| over the transactions from the i-th on that have
\* amount <= 0 and whose category is one of `wanted`.
RECURSIVE ExpensesOf(_, _, _)
ExpensesOf(transactions, i, wanted) ==
    IF i > Len(transactions) THEN 0
    ELSE (IF /\ transactions[i].amount <= 0
             /\ FirstMatchingCategory(Lower(transactions[i].description)) \in wanted
          THEN Abs(transactions[i].amount) ELSE 0)
         + ExpensesOf(transactions, i + 1, wanted)

AllCategories == DOMAIN InitialCategories

RECURSIVE SumOfValues(_, _)
SumOfValues(dict, keys) ==
    IF keys = {} THEN 0
    ELSE LET k == CHOOSE x \in keys : TRUE
         IN  dict[k] + SumOfValues(dict, keys \ {k})

\* C30: categorize_expenses adds the absolute amount of each transaction with
\* amount <= 0 to exactly one category, the first in declaration order one of
\* whose keywords occurs in the lowercased description, or 'Other' when none
\* does; a transaction with amount > 0 adds nothing; the returned values sum to
\* the sum of |amount| over the transactions with amount <= 0, and no returned
\* category has value 0.
C30_CategorizeExpenses ==
    Done("categorize_expenses") =>
        LET r == result.returned
        IN  /\ DOMAIN r \subseteq AllCategories
            /\ \A c \in AllCategories :
                  (IF c \in DOMAIN r THEN r[c] ELSE 0)
                      = ExpensesOf(call.transactions, 1, {c})
            /\ \A c \in DOMAIN r : r[c] # 0
            /\ SumOfValues(r, DOMAIN r) = ExpensesOf(call.transactions, 1, AllCategories)

\* C30 witness: fuel at a gas station goes to Utilities, the first category with
\* the keyword 'gas', a gift card to Transportation by the substring 'car', and
\* the salary, which mentions food, to none.
C30_Witness ==
    /\ Done("categorize_expenses")
    /\ Len(call.transactions) = 3
    /\ \E i \in 1..3 : call.transactions[i].amount > 0
    /\ DOMAIN result.returned = {"Utilities", "Transportation"}
    /\ result.returned["Utilities"] = 40
    /\ result.returned["Transportation"] = 15

\* A get_or_create_user call of session s returns or raises in this step.
UserCallEnds(s) ==
    /\ call'.fn = "get_or_create_user"
    /\ call'.session = s
    /\ conn'[s].pc = "idle"
    /\ \/ conn[s].pc = "create"
       \/ conn[s].pc = "idle" /\ started' = started + 1

\* C27 (as claimed): under any sequence or interleaving of get_or_create_user
\* calls, with any emails (the same email, or an empty one, given for different
\* usernames included), every call returns the id of the single users row that
\* holds its username, so equal usernames get equal ids and different ones
\* different ids, and no call fails.
C27_EveryCallReturnsTheUsersId ==
    [][\A s \in Sessions :
        UserCallEnds(s) =>
            /\ ~IsRaise(result')
            /\ UserIds(db', call'.username) = {result'.returned}
            /\ Cardinality({i \in DOMAIN db'["users"].rows :
                              db'["users"].rows[i].username = call'.username}) = 1]_vars

\* The part of C27 that the code meets: a call that does not fail returns the
\* id of the single row of its username, and no two rows share a username or
\* an id.
C27_ReturnedIdIsTheUsersRow ==
    [][\A s \in Sessions :
        (UserCallEnds(s) /\ ~IsRaise(result')) =>
            /\ UserIds(db', call'.username) = {result'.returned}
            /\ \A i, j \in DOMAIN db'["users"].rows :
                  i # j => /\ db'["users"].rows[i].username # db'["users"].rows[j].username
                           /\ db'["users"].rows[i].id # db'["users"].rows[j].id]_vars

\* Handler fn of session s runs in this step.
Runs(fn, s) ==
    /\ started' = started + 1
    /\ call'.fn = fn
    /\ call'.session = s

\* The session state holds, for every category, what the get_user_* functions
\* return for user_id on the database.
SnapshotIsPersisted(session, database, user_id) ==
    /\ \A income \in get_user_income(database, user_id) : session.income = income
    /\ session.expenses = get_user_expenses(database, user_id)
    /\ session.assets = get_user_assets(database, user_id)
    /\ session.liabilities = get_user_liabilities(database, user_id)
    /\ \A goals \in get_user_financial_goals(database, user_id) :
          SameEntriesInSomeOrder(goals, session.financial_goals)
    /\ session.portfolio = get_user_portfolio(database, user_id)

\* C24 (as claimed): after a successful Login or Register, the in-memory
\* session snapshot (income, expenses, assets, liabilities, goals, portfolio)
\* equals the snapshot persisted for the user id the session is bound to, also
\* when Register is used with a username that already exists.
C24_SessionSnapshotIsThePersistedOne ==
    [][\A s \in Sessions :
        ((Runs("Login", s) \/ Runs("Register", s)) /\ local'[s].authenticated) =>
            SnapshotIsPersisted(local'[s], db', local'[s].user_id)]_vars

\* The part of C24 that the code meets: after a Login, and after a Register
\* that creates the user, the session holds the persisted snapshot.
C24_HoldsForLoginAndNewUsers ==
    [][\A s \in Sessions :
        (/\ Runs("Login", s) \/ Runs("Register", s)
         /\ local'[s].authenticated
         /\ Runs("Register", s) => UserIds(db, local'[s].username) = {}) =>
            /\ local'[s].income \in get_user_income(db', local'[s].user_id)
            /\ local'[s].expenses = get_user_expenses(db', local'[s].user_id)
            /\ local'[s].assets = get_user_assets(db', local'[s].user_id)
            /\ local'[s].liabilities = get_user_liabilities(db', local'[s].user_id)
            /\ local'[s].financial_goals
                  \in get_user_financial_goals(db', local'[s].user_id)
            /\ local'[s].portfolio = get_user_portfolio(db', local'[s].user_id)]_vars

\* C25 (as claimed): after the Save Data action completes, for every category
\* the snapshot read back by the get_user_* functions for the session's user
\* equals the session snapshot at the time of saving, including when the
\* session's goals or portfolio are empty while rows for them are stored.
C25_SaveDataReadsBack ==
    [][\A s \in Sessions :
        Runs("Save Data", s) => SnapshotIsPersisted(local[s], db', local[s].user_id)]_vars

\* The part of C25 that the code meets: expenses, assets and liabilities read
\* back as saved, and so do goals and portfolio when the session's list is not
\* empty.
C25_ReadsBackWhatIsSaved ==
    [][\A s \in Sessions :
        Runs("Save Data", s) =>
            LET u == local[s].user_id
            IN  /\ local[s].income \in get_user_income(db', u)
                /\ local[s].expenses = get_user_expenses(db', u)
                /\ local[s].assets = get_user_assets(db', u)
                /\ local[s].liabilities = get_user_liabilities(db', u)
                /\ Len(local[s].financial_goals) > 0 =>
                      \A goals \in get_user_financial_goals(db', u) :
                          SameEntriesInSomeOrder(goals, local[s].financial_goals)
                /\ Len(local[s].portfolio) > 0 =>
                      local[s].portfolio = get_user_portfolio(db', u)]_vars

\* C26 (as claimed): rendering the Budget Analyzer page without changing any
\* input leaves the session's expenses mapping unchanged: every category and
\* amount loaded at login, also a category outside the twelve predefined ones,
\* is still there afterwards.
C26_RenderKeepsExpenses ==
    [][\A s \in Sessions :
        (Runs("Budget Analyzer", s) /\ call'.input = NoInput) =>
            local'[s].expenses = local[s].expenses]_vars

\* The part of C26 that the code meets: the predefined categories keep their
\* amounts.
C26_RenderKeepsPredefinedCategories ==
    [][\A s \in Sessions :
        (Runs("Budget Analyzer", s) /\ call'.input = NoInput) =>
            \A c \in ExpenseCategories \cap DOMAIN local[s].expenses :
                /\ c \in DOMAIN local'[s].expenses
                /\ local'[s].expenses[c] = local[s].expenses[c]]_vars

====
